---------------------------- MODULE Spec2Model ----------------------------
(***************************************************************************)
(* Model of the SIP event processor: dispatcher, dialog workers, BLF       *)
(* watcher index, subscription registry, presence router and subscription  *)
(* store.  Strings the code inspects character by character (URIs) are     *)
(* sequences of one-character strings; other strings are TLA+ strings.     *)
(***************************************************************************)
EXTENDS Integers, Sequences, FiniteSets, TLC

(***************************************************************************)
(* Bounds of the model.                                                    *)
(***************************************************************************)
\* number of inputs the environment delivers in a run: SIP messages,
\* call-state events of the presence feed and reaper requests
MaxInputs == 2
\* largest config.max_incoming_queue_per_worker a run is configured with
MaxQueueCapacity == 2
\* config.presence_max_pending_events, chosen small
presence_max_pending_events == 1
\* config.max_dialogs_per_worker, chosen small
max_dialogs_per_worker == 1
\* config.max_subscriptions_per_tenant, chosen small
max_subscriptions_per_tenant == 1
\* DialogWorker::kCleanupInterval, chosen small
kCleanupInterval == 2

(***************************************************************************)
(* Identifiers.                                                            *)
(***************************************************************************)
DialogIds == {"D1", "D2"}
Workers == {0, 1}
\* std::hash<std::string> is a fixed function of the dialog id
StdHash == [d \in DialogIds |-> IF d = "D1" THEN 3 ELSE 5]

NoCtx == [none |-> TRUE]
NoBody == [kind |-> "empty"]
NoEvent == [id |-> 0]
NullHandle == "null"

(***************************************************************************)
(* Character strings.                                                      *)
(***************************************************************************)
\* std::tolower on the characters the model uses
ToLower(c) ==
    CASE c = "S" -> "s" [] c = "I" -> "i" [] c = "P" -> "p"
      [] c = "A" -> "a" [] c = "B" -> "b" [] c = "T" -> "t" [] c = "U" -> "u"
      [] OTHER -> c

\* std::string::find(c, from): least index >= from holding c, 0 for npos
\* (indices are 1-based here)
Find(s, c, from) ==
    LET hits == {i \in from..Len(s) : s[i] = c}
    IN  IF hits = {} THEN 0 ELSE CHOOSE i \in hits : \A j \in hits : i <= j

StartsWith(s, p) == Len(s) >= Len(p) /\ SubSeq(s, 1, Len(p)) = p

SipPrefix == <<"s", "i", "p", ":">>
SipsPrefix == <<"s", "i", "p", "s", ":">>
Port5060 == <<"5", "0", "6", "0">>

\* normalize_uri: strip a leading "<"
StripFront(n) == IF Head(n) = "<" THEN Tail(n) ELSE n

\* normalize_uri: strip a trailing ">"
StripBack(n) == IF n # <<>> /\ n[Len(n)] = ">" THEN SubSeq(n, 1, Len(n) - 1) ELSE n

\* normalize_uri: erase from the first ";"
StripParams(n) == IF Find(n, ";", 1) # 0 THEN SubSeq(n, 1, Find(n, ";", 1) - 1) ELSE n

\* normalize_uri: erase ":5060" after the "@"
StripDefaultPort(n, at_pos, colon) ==
    IF at_pos # 0 /\ colon # 0 /\ SubSeq(n, colon + 1, Len(n)) = Port5060
    THEN SubSeq(n, 1, colon - 1) ELSE n

\* normalize_uri: lowercase up to and including the first ":"
LowerScheme(n, scheme_end) ==
    [i \in 1..Len(n) |-> IF scheme_end # 0 /\ i <= scheme_end THEN ToLower(n[i]) ELSE n[i]]

\* normalize_uri: lowercase what follows the "@"
LowerHost(n, at_pos) ==
    [i \in 1..Len(n) |->
        IF at_pos # 0 /\ at_pos <= Len(n) /\ i > at_pos THEN ToLower(n[i]) ELSE n[i]]

\* normalize_uri: ensure the sip: prefix
EnsureSipPrefix(n) ==
    IF ~StartsWith(n, SipPrefix) /\ ~StartsWith(n, SipsPrefix) THEN SipPrefix \o n ELSE n

\* normalize_uri from the port check on; at_pos is found before the port is
\* erased
NormalizePort(n, at_pos) ==
    StripDefaultPort(n, at_pos, IF at_pos # 0 THEN Find(n, ":", at_pos) ELSE 0)

NormalizeCase(n, at_pos) ==
    EnsureSipPrefix(LowerHost(LowerScheme(n, Find(n, ":", 1)), at_pos))

NormalizeHost(n, at_pos) == NormalizeCase(NormalizePort(n, at_pos), at_pos)

NormalizeStripped(n) == NormalizeHost(n, Find(n, "@", 1))

\* BlfSubscriptionIndex::normalize_uri
normalize_uri(uri) ==
    IF uri = <<>> THEN <<>>
    ELSE NormalizeStripped(StripParams(StripBack(StripFront(uri))))

(***************************************************************************)
(* BLF watcher index: idx = [u2w, d2u]; u2w maps a normalized URI to the   *)
(* sequence of its watchers, d2u maps a dialog id to its normalized URI.   *)
(***************************************************************************)
EmptyIndex == [u2w |-> <<>>, d2u |-> <<>>]

Restrict(f, keys) == [k \in keys |-> f[k]]

\* the erase/remove_if idiom of add, remove and remove_dialog
EraseWatcher(u2w, uri, dialog_id) ==
    IF uri \notin DOMAIN u2w THEN u2w ELSE
    LET kept == SelectSeq(u2w[uri], LAMBDA w : w.dialog_id # dialog_id)
    IN  IF kept = <<>> THEN Restrict(u2w, DOMAIN u2w \ {uri})
        ELSE [u2w EXCEPT ![uri] = kept]

\* BlfSubscriptionIndex::add once the URI is normalized and the dialog's
\* former entry is erased from u1
IndexInsert(idx, u1, norm_uri, dialog_id, tenant_id) ==
    [u2w |-> (norm_uri :> Append(IF norm_uri \in DOMAIN u1 THEN u1[norm_uri] ELSE <<>>,
                                 [dialog_id |-> dialog_id, tenant_id |-> tenant_id]))
             @@ u1,
     d2u |-> (dialog_id :> norm_uri) @@ idx.d2u]

\* BlfSubscriptionIndex::add with the URI normalized
IndexAddNormalized(idx, norm_uri, dialog_id, tenant_id) ==
    IF dialog_id \in DOMAIN idx.d2u
    THEN IF idx.d2u[dialog_id] = norm_uri THEN idx
         ELSE IndexInsert(idx, EraseWatcher(idx.u2w, idx.d2u[dialog_id], dialog_id),
                          norm_uri, dialog_id, tenant_id)
    ELSE IndexInsert(idx, idx.u2w, norm_uri, dialog_id, tenant_id)

\* BlfSubscriptionIndex::add
IndexAdd(idx, monitored_uri, dialog_id, tenant_id) ==
    IF monitored_uri = <<>> \/ dialog_id = "" THEN idx
    ELSE IndexAddNormalized(idx, normalize_uri(monitored_uri), dialog_id, tenant_id)

\* BlfSubscriptionIndex::remove_dialog
IndexRemoveDialog(idx, dialog_id) ==
    IF dialog_id \notin DOMAIN idx.d2u THEN idx ELSE
    [u2w |-> EraseWatcher(idx.u2w, idx.d2u[dialog_id], dialog_id),
     d2u |-> Restrict(idx.d2u, DOMAIN idx.d2u \ {dialog_id})]

\* the watchers stored under a normalized URI
WatchersOf(idx, norm_uri) ==
    IF norm_uri \in DOMAIN idx.u2w THEN idx.u2w[norm_uri] ELSE <<>>

\* BlfSubscriptionIndex::lookup(monitored_uri)
IndexLookup(idx, monitored_uri) == WatchersOf(idx, normalize_uri(monitored_uri))

(***************************************************************************)
(* Subscription registry: reg = [subscriptions, tenant_counts].            *)
(***************************************************************************)
EmptyRegistry == [subscriptions |-> <<>>, tenant_counts |-> <<>>]

\* SubscriptionRegistry::register_subscription
register_subscription(reg, dialog_id, info) ==
    IF dialog_id \in DOMAIN reg.subscriptions
    THEN [reg EXCEPT !.subscriptions[dialog_id] = info]
    ELSE LET t == info.tenant_id
             n == IF t \in DOMAIN reg.tenant_counts THEN reg.tenant_counts[t] ELSE 0
         IN  [subscriptions |-> (dialog_id :> info) @@ reg.subscriptions,
              tenant_counts |-> (t :> (n + 1)) @@ reg.tenant_counts]

\* SubscriptionRegistry::unregister_subscription
unregister_subscription(reg, dialog_id) ==
    IF dialog_id \notin DOMAIN reg.subscriptions THEN reg ELSE
    LET t == reg.subscriptions[dialog_id].tenant_id
        tc == reg.tenant_counts
        n == IF t \in DOMAIN tc THEN (IF tc[t] > 0 THEN tc[t] - 1 ELSE tc[t]) ELSE 0
        tc1 == IF t \notin DOMAIN tc THEN tc
               ELSE IF n = 0 THEN Restrict(tc, DOMAIN tc \ {t})
               ELSE [tc EXCEPT ![t] = n]
    IN  [subscriptions |-> Restrict(reg.subscriptions, DOMAIN reg.subscriptions \ {dialog_id}),
         tenant_counts |-> tc1]

\* SubscriptionRegistry::count_by_tenant
count_by_tenant(reg, tenant) ==
    IF tenant \in DOMAIN reg.tenant_counts THEN reg.tenant_counts[tenant] ELSE 0

(***************************************************************************)
(* Subscription records and the store: st = [pending_ops, backend, errors, *)
(* condition, blocked, sync_blocked, issued]: the queue pending_ops_, the  *)
(* collection, stats_.errors, the condition of the backend ("ok",          *)
(* "invalid": the pool hands out no valid client, "error": a write throws, *)
(* "stalled": a write does not return), whether the call in progress hangs *)
(* in the backend, whether the sync thread hangs there, and per dialog the *)
(* write issued last.                                                      *)
(***************************************************************************)
\* SubscriptionRecord with its default member initializers
DefaultRecord ==
    [dialog_id |-> "", tenant_id |-> <<>>, type |-> "kUnknown",
     lifecycle |-> "kPending", expires_set |-> FALSE, dirty |-> FALSE,
     blf_monitored_uri |-> <<>>, blf_last_state |-> "",
     blf_presence_call_id |-> "", blf_last_notify_body |-> NoBody,
     blf_notify_version |-> 0,
     mwi_new_messages |-> 0, mwi_old_messages |-> 0]

\* lifecycle_to_string
lifecycle_to_string(l) ==
    CASE l = "kPending" -> "Pending" [] l = "kActive" -> "Active"
      [] l = "kTerminating" -> "Terminating" [] l = "kTerminated" -> "Terminated"
      [] OTHER -> "Unknown"

\* lifecycle_from_string
lifecycle_from_string(s) ==
    CASE s = "Pending" -> "kPending" [] s = "Active" -> "kActive"
      [] s = "Terminating" -> "kTerminating" [] s = "Terminated" -> "kTerminated"
      [] OTHER -> "kPending"

\* subscription_type_to_string
subscription_type_to_string(t) ==
    CASE t = "kBLF" -> "BLF" [] t = "kMWI" -> "MWI" [] t = "kUnknown" -> "Unknown"
      [] OTHER -> "Invalid"

\* subscription_type_from_string
subscription_type_from_string(s) ==
    CASE s = "BLF" -> "kBLF" [] s = "MWI" -> "kMWI" [] OTHER -> "kUnknown"

\* parse_subscription_type: substring search in the Event header
parse_subscription_type(event_header) ==
    CASE event_header = "dialog" -> "kBLF"
      [] event_header = "message-summary" -> "kMWI"
      [] OTHER -> "kUnknown"

\* the Event header of an outgoing NOTIFY ("dialog", "message-summary", none)
subscription_type_to_event_header(t) ==
    CASE t = "kBLF" -> "dialog" [] t = "kMWI" -> "message-summary" [] OTHER -> "none"

\* the document save_immediately writes for a record
StoreDoc(rec) ==
    [dialog_id |-> rec.dialog_id, tenant_id |-> rec.tenant_id,
     type |-> subscription_type_to_string(rec.type),
     lifecycle |-> lifecycle_to_string(rec.lifecycle),
     blf_monitored_uri |-> rec.blf_monitored_uri,
     blf_last_state |-> rec.blf_last_state,
     blf_presence_call_id |-> rec.blf_presence_call_id,
     blf_last_notify_body |-> rec.blf_last_notify_body,
     blf_notify_version |-> rec.blf_notify_version,
     mwi_new_messages |-> rec.mwi_new_messages,
     mwi_old_messages |-> rec.mwi_old_messages,
     expires_at |-> rec.expires_set]

\* the record load_active_subscriptions builds from a document
RecordFromDoc(doc) ==
    [DefaultRecord EXCEPT
        !.dialog_id = doc.dialog_id, !.tenant_id = doc.tenant_id,
        !.type = subscription_type_from_string(doc.type),
        !.lifecycle = lifecycle_from_string(doc.lifecycle),
        !.blf_monitored_uri = doc.blf_monitored_uri,
        !.blf_last_state = doc.blf_last_state,
        !.blf_presence_call_id = doc.blf_presence_call_id,
        !.blf_last_notify_body = doc.blf_last_notify_body,
        !.blf_notify_version = doc.blf_notify_version,
        !.mwi_new_messages = doc.mwi_new_messages,
        !.mwi_old_messages = doc.mwi_old_messages,
        !.expires_set = doc.expires_at]

\* SubscriptionStore::save_immediately (upsert by dialog_id)
save_immediately(st, rec) ==
    IF st.condition = "stalled" THEN [st EXCEPT !.blocked = TRUE]
    ELSE IF st.condition = "invalid" THEN st
    ELSE IF st.condition = "error" THEN [st EXCEPT !.errors = @ + 1]
    ELSE [st EXCEPT !.backend = (rec.dialog_id :> StoreDoc(rec)) @@ st.backend]

\* SubscriptionStore::delete_immediately
delete_immediately(st, dialog_id) ==
    IF st.condition = "stalled" THEN [st EXCEPT !.blocked = TRUE]
    ELSE IF st.condition = "invalid" THEN st
    ELSE IF st.condition = "error" THEN [st EXCEPT !.errors = @ + 1]
    ELSE [st EXCEPT !.backend = Restrict(st.backend, DOMAIN st.backend \ {dialog_id})]

\* no write has been issued for the dialog
NoWrite == [type |-> "none", doc |-> <<>>]

\* the store once the write (type, doc) has been issued for dialog_id
Issued(st, dialog_id, type, doc) ==
    [st EXCEPT !.issued[dialog_id] = [type |-> type, doc |-> doc]]

\* the store as constructed on the collection backend
NewStore(backend) ==
    [pending_ops |-> <<>>, backend |-> backend, errors |-> 0, condition |-> "ok",
     blocked |-> FALSE, sync_blocked |-> FALSE,
     issued |-> [d \in DialogIds |-> NoWrite]]

\* SubscriptionStore::queue_upsert
queue_upsert(st, rec) ==
    [st EXCEPT !.pending_ops =
        Append(@, [type |-> "kUpsert", record |-> rec, dialog_id |-> rec.dialog_id])]

\* SubscriptionStore::queue_delete
queue_delete(st, dialog_id) ==
    [st EXCEPT !.pending_ops =
        Append(@, [type |-> "kDelete", record |-> DefaultRecord, dialog_id |-> dialog_id])]

\* one operation of the batch loop of flush_pending
ApplyOp(st, op) ==
    IF op.type = "kUpsert" THEN save_immediately(st, op.record)
    ELSE delete_immediately(st, op.dialog_id)

RECURSIVE ApplyOps(_, _)
ApplyOps(st, ops) ==
    IF ops = <<>> THEN st ELSE ApplyOps(ApplyOp(st, Head(ops)), Tail(ops))

(***************************************************************************)
(* State.                                                                  *)
(***************************************************************************)
VARIABLES
    started,            \* DialogDispatcher::started_
    stack_mgr,          \* DialogWorker::stack_mgr_ is non-null
    max_incoming_queue_per_worker,  \* config_.max_incoming_queue_per_worker
    phase,              \* position of each worker thread in DialogWorker::run
    stop_requested,     \* DialogWorker::stop_requested_, per worker
    incoming_queue,     \* DialogWorker::incoming_queue_, per worker
    local_batch,        \* local_batch of DialogWorker::run, per worker
    pending_terminates, \* DialogWorker::pending_terminates_, per worker
    dialogs,            \* DialogWorker::dialogs_, per worker and dialog id
    todo,               \* dialogs the running process_dialog_queues pass has yet to visit
    process_cycle,      \* DialogWorker::process_cycle_ modulo kCleanupInterval
    notify_version_,    \* BlfProcessor::notify_version_, per worker
    events_dropped,     \* WorkerStats::events_dropped, per worker
    index,              \* BlfSubscriptionIndex singleton
    registry,           \* SubscriptionRegistry singleton
    store,              \* SubscriptionStore: pending_ops_ and the backend collection
    event_queue_,       \* PresenceEventRouter::event_queue_
    router_dropped,     \* PresenceEventRouter stats_.events_dropped
    id_counter_,        \* SipEvent::id_counter_
    handle_refs,        \* per SIP handle, the references nua_callback took less
                        \* the references released since
    inputs,             \* inputs the environment has delivered so far
    input_budget,       \* inputs the environment delivers in this run
    reaper_scan,        \* the get_stale_subscriptions call the reaper thread is in
    sent,               \* SIP messages handed to the stack by the last step
    last,               \* the last step: operation, worker, dialog, event, result
    accepted,           \* per dialog, the ids of the events enqueue accepted, in order
    processed,          \* per dialog, the ids of the events process_event handled, in order
    versions,           \* per dialog, the versions of the dialog-info bodies sent to it
    trigger_run,        \* per dialog, the presence triggers processed last: their
                        \* (state, call id) and how many in a row carried it
    failover,           \* PresenceFailoverManager: config_, servers_, round_robin_index_,
                        \* and the clock it reads
    parser              \* PresenceXmlParser: buffer_, and CallStateEvent::id_counter_

vars == <<started, stack_mgr, max_incoming_queue_per_worker, phase, stop_requested, incoming_queue, local_batch,
          pending_terminates, dialogs, todo, process_cycle, notify_version_,
          events_dropped, index, registry, store, event_queue_, router_dropped,
          id_counter_, handle_refs, inputs, input_budget, reaper_scan, sent, last, accepted, processed,
          versions, trigger_run, failover, parser>>

\* config.mongo_enable_persistence with a connected client
mongo_enable_persistence == TRUE

(***************************************************************************)
(* Worker helpers.  They transform wd = [rec, nua_handle, sent, idx, st,   *)
(* nver]: the dialog's record and handle, the messages sent so far, the    *)
(* index, the store and the worker's BlfProcessor::notify_version_.        *)
(***************************************************************************)
\* SipStackManager::respond_to_subscribe: the response handed to the stack
respond_to_subscribe(nh, status, expires) ==
    [msg |-> "response", handle |-> nh, status |-> status, expires |-> expires,
     event_type |-> "", content_type |-> "", body |-> NoBody, sub_state |-> ""]

\* SipStackManager::send_notify: the NOTIFY handed to the stack
send_notify(nh, event_type, content_type, body, sub_state) ==
    [msg |-> "notify", handle |-> nh, status |-> 0, expires |-> 0,
     event_type |-> event_type, content_type |-> content_type, body |-> body,
     sub_state |-> sub_state]

\* DialogWorker::deindex_blf_subscription
deindex_blf_subscription(wd, did) ==
    IF wd.rec.type # "kBLF" THEN wd
    ELSE [wd EXCEPT !.idx = IndexRemoveDialog(@, did)]

\* variant of index_blf_subscription that never adds to the watcher index
index_blf_subscription_skipped(wd, did) == wd

\* DialogWorker::index_blf_subscription
index_blf_subscription(wd, did) ==
    IF wd.rec.type # "kBLF" \/ wd.rec.blf_monitored_uri = <<>> THEN wd
    ELSE IF wd.rec.lifecycle # "kActive" THEN wd
    ELSE [wd EXCEPT !.idx = IndexAdd(@, wd.rec.blf_monitored_uri, did, wd.rec.tenant_id)]

\* persist_record that gives the subscription up when the save fails
persist_record_abort(wd, immediate) ==
    IF ~mongo_enable_persistence THEN wd
    ELSE IF immediate THEN
        [wd EXCEPT !.st = Issued(save_immediately(@, wd.rec), wd.rec.dialog_id,
                                 "kUpsert", StoreDoc(wd.rec)),
                   !.rec.lifecycle = IF wd.st.condition \in {"invalid", "error"}
                                     THEN "kTerminated" ELSE @]
    ELSE [wd EXCEPT !.st = Issued(queue_upsert(@, wd.rec), wd.rec.dialog_id,
                                  "kUpsert", StoreDoc(wd.rec))]

\* DialogWorker::persist_record
persist_record(wd, immediate) ==
    IF ~mongo_enable_persistence THEN wd
    ELSE IF immediate THEN
        [wd EXCEPT !.st = Issued(save_immediately(@, wd.rec), wd.rec.dialog_id,
                                 "kUpsert", StoreDoc(wd.rec))]
    ELSE [wd EXCEPT !.st = Issued(queue_upsert(@, wd.rec), wd.rec.dialog_id,
                                  "kUpsert", StoreDoc(wd.rec))]

\* if (sub_store_) sub_store_->queue_delete(did); a thread that hangs in
\* the save before it does not get here
store_queue_delete(wd, did) ==
    IF ~mongo_enable_persistence \/ wd.st.blocked THEN wd
    ELSE [wd EXCEPT !.st = Issued(queue_delete(@, did), did, "kDelete", <<>>)]

\* DialogWorker::send_subscribe_response
send_subscribe_response(wd, ev, status) ==
    IF ~stack_mgr \/ wd.nua_handle = NullHandle THEN wd
    ELSE [wd EXCEPT !.sent = Append(@,
            respond_to_subscribe(wd.nua_handle, status,
                                 IF status >= 400 THEN 0 ELSE ev.expires))]

\* DialogWorker::send_sip_notify
send_sip_notify(wd, content_type, body, sub_state) ==
    IF ~stack_mgr \/ wd.nua_handle = NullHandle THEN wd
    ELSE IF subscription_type_to_event_header(wd.rec.type) = "none" THEN wd
    ELSE [wd EXCEPT !.sent = Append(@,
            send_notify(wd.nua_handle, subscription_type_to_event_header(wd.rec.type),
                        content_type, body, sub_state))]

\* the dialog-info document with no <dialog> element
EmptyDialogInfo(version, entity) ==
    [kind |-> "dialog-info", version |-> version, entity |-> entity,
     has_dialog |-> FALSE, state |-> "", call_id |-> ""]

\* the message-summary body of the initial NOTIFY
MessageSummary(rec) ==
    [kind |-> "summary", messages_waiting |-> rec.mwi_new_messages > 0,
     new_messages |-> rec.mwi_new_messages, old_messages |-> rec.mwi_old_messages]

\* the body "Messages-Waiting: no" of the final NOTIFY
MessagesWaitingNo == [kind |-> "summary-no"]

\* DialogWorker::send_initial_notify
send_initial_notify(wd) ==
    IF ~stack_mgr \/ wd.nua_handle = NullHandle THEN wd
    ELSE IF wd.rec.type = "kBLF" THEN
        send_sip_notify(wd, "application/dialog-info+xml",
            IF wd.rec.blf_last_notify_body # NoBody THEN wd.rec.blf_last_notify_body
            ELSE EmptyDialogInfo(0, wd.rec.blf_monitored_uri),
            "active")
    ELSE IF wd.rec.type = "kMWI" THEN
        send_sip_notify(wd, "application/simple-message-summary",
                        MessageSummary(wd.rec), "active")
    ELSE wd

\* DialogWorker::handle_notify_response
handle_notify_response(wd, did, ev) ==
    IF ev.status >= 200 /\ ev.status < 300 THEN wd
    ELSE IF ev.status >= 400 THEN
        LET w1 == deindex_blf_subscription(wd, did)
            w2 == [w1 EXCEPT !.rec.lifecycle = "kTerminated"]
            w3 == persist_record(w2, TRUE)
        IN  store_queue_delete(w3, did)
    ELSE wd

(***************************************************************************)
(* BLF and MWI processors (they change the record only).                   *)
(***************************************************************************)
\* parse_dialog_info_xml(...).valid: the body holds a <state> element
DialogInfoValid(body) == body.kind = "dialog-info" /\ body.has_dialog

\* BlfProcessor::update_blf_state
update_blf_state(rec, body) ==
    [rec EXCEPT !.blf_last_state = body.state,
                !.blf_monitored_uri = IF body.entity # <<>> THEN body.entity ELSE @]

\* handle_subscribe that activates the record whatever its lifecycle
Blf_handle_subscribe_reactivate(ev, rec) ==
    LET r1 == IF ev.to_uri # <<>> THEN [rec EXCEPT !.blf_monitored_uri = ev.to_uri] ELSE rec
    IN  IF ev.expires = 0 THEN [r1 EXCEPT !.lifecycle = "kTerminating"]
        ELSE [r1 EXCEPT !.expires_set = TRUE, !.lifecycle = "kActive"]

\* BlfProcessor::handle_subscribe
Blf_handle_subscribe(ev, rec) ==
    LET r1 == IF ev.to_uri # <<>> THEN [rec EXCEPT !.blf_monitored_uri = ev.to_uri] ELSE rec
    IN  IF ev.expires = 0 THEN [r1 EXCEPT !.lifecycle = "kTerminating"]
        ELSE [r1 EXCEPT !.expires_set = TRUE,
                        !.lifecycle = IF @ = "kPending" THEN "kActive" ELSE @]

\* BlfProcessor::handle_notify
Blf_handle_notify(ev, rec) ==
    LET r1 == IF ev.body # NoBody /\ DialogInfoValid(ev.body)
              THEN update_blf_state(rec, ev.body) ELSE rec
    IN  IF ev.subscription_state = "terminated"
        THEN [r1 EXCEPT !.lifecycle = "kTerminated"] ELSE r1

\* BlfProcessor::handle_subscribe_response
Blf_handle_subscribe_response(ev, rec) ==
    IF ev.status >= 200 /\ ev.status < 300 THEN
        [rec EXCEPT !.lifecycle = IF @ = "kPending" THEN "kActive" ELSE @,
                    !.expires_set = IF ev.expires > 0 THEN TRUE ELSE @]
    ELSE IF ev.status = 481 \/ ev.status = 489 THEN [rec EXCEPT !.lifecycle = "kTerminated"]
    ELSE rec

\* BlfProcessor::handle_publish
Blf_handle_publish(ev, rec) ==
    IF ev.body # NoBody /\ DialogInfoValid(ev.body)
    THEN update_blf_state(rec, ev.body) ELSE rec

\* BlfProcessor::process
Blf_process(ev, rec) ==
    CASE ev.category = "kSubscribe" ->
            IF ev.direction = "kIncoming" THEN Blf_handle_subscribe(ev, rec)
            ELSE Blf_handle_subscribe_response(ev, rec)
      [] ev.category = "kNotify" -> Blf_handle_notify(ev, rec)
      [] ev.category = "kPublish" -> Blf_handle_publish(ev, rec)
      [] OTHER -> rec

\* parse_message_summary(...).valid
SummaryValid(body) == body.kind = "summary"

\* MwiProcessor::update_mwi_state
update_mwi_state(rec, body) ==
    [rec EXCEPT !.mwi_new_messages = body.new_messages,
                !.mwi_old_messages = body.old_messages]

\* MwiProcessor::handle_subscribe
Mwi_handle_subscribe(ev, rec) ==
    IF ev.expires = 0 THEN [rec EXCEPT !.lifecycle = "kTerminating"]
    ELSE [rec EXCEPT !.expires_set = TRUE,
                     !.lifecycle = IF @ = "kPending" THEN "kActive" ELSE @]

\* MwiProcessor::handle_notify
Mwi_handle_notify(ev, rec) ==
    IF ev.body = NoBody THEN rec ELSE
    LET r1 == IF SummaryValid(ev.body) THEN update_mwi_state(rec, ev.body) ELSE rec
    IN  IF ev.subscription_state = "terminated"
        THEN [r1 EXCEPT !.lifecycle = "kTerminated"] ELSE r1

\* MwiProcessor::handle_subscribe_response
Mwi_handle_subscribe_response(ev, rec) ==
    IF ev.status >= 200 /\ ev.status < 300 THEN
        [rec EXCEPT !.lifecycle = IF @ = "kPending" THEN "kActive" ELSE @,
                    !.expires_set = IF ev.expires > 0 THEN TRUE ELSE @]
    ELSE IF ev.status = 481 \/ ev.status = 489 \/ ev.status = 403
         THEN [rec EXCEPT !.lifecycle = "kTerminated"]
    ELSE rec

\* MwiProcessor::handle_publish
Mwi_handle_publish(ev, rec) ==
    IF ev.body # NoBody /\ SummaryValid(ev.body) THEN update_mwi_state(rec, ev.body) ELSE rec

\* MwiProcessor::process
Mwi_process(ev, rec) ==
    CASE ev.category = "kSubscribe" ->
            IF ev.direction = "kIncoming" THEN Mwi_handle_subscribe(ev, rec)
            ELSE Mwi_handle_subscribe_response(ev, rec)
      [] ev.category = "kNotify" -> Mwi_handle_notify(ev, rec)
      [] ev.category = "kPublish" -> Mwi_handle_publish(ev, rec)
      [] OTHER -> rec

(***************************************************************************)
(* Events.                                                                 *)
(***************************************************************************)
\* categorize_nua_event
categorize_nua_event(nua_event) ==
    CASE nua_event \in {"nua_i_subscribe", "nua_r_subscribe"} -> "kSubscribe"
      [] nua_event \in {"nua_i_notify", "nua_r_notify"} -> "kNotify"
      [] nua_event \in {"nua_i_publish", "nua_r_publish"} -> "kPublish"
      [] OTHER -> "kUnknown"

\* determine_direction
determine_direction(nua_event) ==
    IF nua_event \in {"nua_i_subscribe", "nua_i_notify", "nua_i_publish"}
    THEN "kIncoming" ELSE "kOutgoing"

\* "sip:" + url_user + "@" + url_host
UriOf(user, host) == SipPrefix \o user \o <<"@">> \o host

\* SipCallbackHandler::extract_tenant_id: the host of the To header
extract_tenant_id(sip) == sip.to_host

\* SipEvent::create_from_sofia followed by the tenant_id assignment of
\* nua_callback; sip holds the headers of the message, nh is the handle
create_from_sofia(id, nua_event, status, nh, sip) ==
    [id |-> id, dialog_id |-> sip.dialog_id, tenant_id |-> extract_tenant_id(sip),
     category |-> categorize_nua_event(nua_event),
     direction |-> determine_direction(nua_event),
     source |-> "kSipStack",
     sub_type |-> parse_subscription_type(sip.event_header),
     status |-> status,
     to_uri |-> UriOf(sip.to_user, sip.to_host),
     expires |-> IF sip.has_expires THEN sip.ex_delta ELSE 0,
     subscription_state |-> sip.ss_substate,
     body |-> sip.payload,
     nua_handle |-> nh,
     presence_state |-> "", presence_call_id |-> ""]

\* call_state_to_blf_state
call_state_to_blf_state(state) ==
    CASE state = "kTrying" -> "trying" [] state = "kRinging" -> "early"
      [] state = "kConfirmed" -> "confirmed" [] state = "kTerminated" -> "terminated"
      [] state = "kHeld" -> "confirmed" [] state = "kResumed" -> "confirmed"
      [] OTHER -> "unknown"

\* the dialog-info document of build_dialog_info_xml (worker and router)
DialogInfo(version, entity, call_id, state) ==
    [kind |-> "dialog-info", version |-> version, entity |-> entity,
     has_dialog |-> (state # "terminated" \/ call_id # ""),
     state |-> IF state # "terminated" \/ call_id # "" THEN state ELSE "",
     call_id |-> IF state # "terminated" \/ call_id # "" THEN call_id ELSE ""]

\* PresenceEventRouter::create_notify_trigger / SipEvent::create_presence_trigger
\* (the router's body carries no version attribute: version 0 stands for it)
create_presence_trigger(id, dialog_id, tenant_id, cse, monitored_uri) ==
    [id |-> id, dialog_id |-> dialog_id, tenant_id |-> tenant_id,
     category |-> "kPresenceTrigger", direction |-> "kIncoming",
     source |-> "kPresenceFeed", sub_type |-> "kBLF",
     status |-> 0, to_uri |-> <<>>, expires |-> 0, subscription_state |-> "",
     body |-> DialogInfo(0, monitored_uri, cse.presence_call_id,
                         call_state_to_blf_state(cse.state)),
     nua_handle |-> NullHandle,
     presence_state |-> call_state_to_blf_state(cse.state),
     presence_call_id |-> cse.presence_call_id]

(***************************************************************************)
(* Processing one event of a dialog.                                       *)
(***************************************************************************)
\* variant of Blf_process_presence_trigger that notifies on every trigger
Blf_process_presence_trigger_always(ev, rec, nver) ==
    [should_notify |-> TRUE,
     rec |-> [rec EXCEPT !.blf_last_state = ev.presence_state,
                         !.blf_presence_call_id = ev.presence_call_id,
                         !.dirty = TRUE],
     body |-> DialogInfo(nver, rec.blf_monitored_uri, ev.presence_call_id,
                         ev.presence_state),
     nver |-> nver + 1]

\* BlfProcessor::process_presence_trigger with build_dialog_info_xml
Blf_process_presence_trigger(ev, rec, nver) ==
    IF rec.lifecycle # "kActive" THEN
        [should_notify |-> FALSE, rec |-> rec, body |-> NoBody, nver |-> nver]
    ELSE IF ~(rec.blf_last_state # ev.presence_state
              \/ rec.blf_presence_call_id # ev.presence_call_id)
            /\ rec.blf_last_state # "" THEN
        [should_notify |-> FALSE, rec |-> rec, body |-> NoBody, nver |-> nver]
    ELSE
        [should_notify |-> TRUE,
         rec |-> [rec EXCEPT !.blf_last_state = ev.presence_state,
                             !.blf_presence_call_id = ev.presence_call_id,
                             !.dirty = TRUE],
         body |-> DialogInfo(nver, rec.blf_monitored_uri, ev.presence_call_id,
                             ev.presence_state),
         nver |-> nver + 1]

\* DialogWorker::process_presence_trigger
process_presence_trigger(wd, did, ev) ==
    LET action == Blf_process_presence_trigger(ev, wd.rec, wd.nver)
    IN  IF ~action.should_notify THEN wd
        ELSE send_sip_notify(
                [wd EXCEPT !.rec = [action.rec EXCEPT
                                       !.blf_last_notify_body = action.body,
                                       !.blf_notify_version = @ + 1,
                                       !.dirty = TRUE],
                           !.nver = action.nver],
                "application/dialog-info+xml", action.body, "active")

\* the processor dispatch of process_event (lines 402-428)
DispatchToProcessor(wd, did, ev) ==
    IF ev.category = "kNotify" /\ ev.direction = "kOutgoing" THEN
        handle_notify_response(wd, did, ev)
    ELSE IF ev.source = "kPresenceFeed" THEN
        process_presence_trigger(wd, did, ev)
    ELSE IF wd.rec.type = "kBLF" THEN [wd EXCEPT !.rec = Blf_process(ev, @)]
    ELSE IF wd.rec.type = "kMWI" THEN [wd EXCEPT !.rec = Mwi_process(ev, @)]
    ELSE IF ev.sub_type # "kUnknown" THEN
        LET r1 == [wd.rec EXCEPT !.type = ev.sub_type]
        IN  [wd EXCEPT !.rec = IF r1.type = "kBLF" THEN Blf_process(ev, r1)
                                ELSE Mwi_process(ev, r1)]
    ELSE wd

IsIncomingSubscribe(ev) == ev.category = "kSubscribe" /\ ev.direction = "kIncoming"

\* the final NOTIFY of the terminated branch of process_event
SendFinalNotify(wd) ==
    IF wd.rec.type = "kBLF" THEN
        send_sip_notify([wd EXCEPT !.rec.blf_notify_version = @ + 1],
                        "application/dialog-info+xml",
                        EmptyDialogInfo(wd.rec.blf_notify_version, wd.rec.blf_monitored_uri),
                        "terminated")
    ELSE IF wd.rec.type = "kMWI" THEN
        send_sip_notify(wd, "application/simple-message-summary",
                        MessagesWaitingNo, "terminated")
    ELSE wd

\* the update of expires_at that ends process_event (lines 479-480), which a
\* thread hanging in persist_record does not reach
SetExpiresAt(wd, ev) ==
    IF ev.expires > 0 /\ ev.category = "kSubscribe" /\ ~wd.st.blocked
    THEN [wd EXCEPT !.rec.expires_set = TRUE] ELSE wd

\* the lifecycle transitions of process_event (lines 430-480)
LifecycleTransitions(wd, did, ev, prev_lifecycle) ==
    LET w0 ==
        IF ev.subscription_state = "terminated" \/ ev.expires = 0 THEN
            LET w1 == IF wd.rec.lifecycle # "kTerminated"
                      THEN deindex_blf_subscription(wd, did) ELSE wd
                w2 == [w1 EXCEPT !.rec.lifecycle = "kTerminated"]
                w3 == IF IsIncomingSubscribe(ev)
                      THEN SendFinalNotify(send_subscribe_response(w2, ev, 200))
                      ELSE w2
            IN  store_queue_delete(persist_record(w3, TRUE), did)
        ELSE IF wd.rec.lifecycle = "kActive" /\ prev_lifecycle = "kPending" THEN
            LET w1 == index_blf_subscription(wd, did)
                w2 == IF IsIncomingSubscribe(ev)
                      THEN send_initial_notify(send_subscribe_response(w1, ev, 200))
                      ELSE w1
            IN  persist_record(w2, TRUE)
        ELSE IF IsIncomingSubscribe(ev) /\ wd.rec.lifecycle = "kActive" THEN
            persist_record(send_subscribe_response(wd, ev, 200), FALSE)
        ELSE IF wd.rec.dirty THEN
            [persist_record(wd, FALSE) EXCEPT !.rec.dirty = FALSE]
        ELSE wd
    IN  SetExpiresAt(w0, ev)

\* DialogWorker::process_event
process_event(wd, did, ev) ==
    LET w1 == [wd EXCEPT !.rec.dirty = TRUE]
        prev_lifecycle == w1.rec.lifecycle
    IN  LifecycleTransitions(DispatchToProcessor(w1, did, ev), did, ev, prev_lifecycle)

(***************************************************************************)
(* Operations on a worker's dialog table.  tbl maps every dialog id to its *)
(* DialogContext [record, event_queue, nua_handle] or to NoCtx.            *)
(***************************************************************************)
EmptyTable == [d \in DialogIds |-> NoCtx]

\* dialogs_.size()
TableSize(tbl) == Cardinality({d \in DialogIds : tbl[d] # NoCtx})

\* DialogDispatcher::worker_index_for
worker_index_for(did) == StdHash[did] % Cardinality(Workers)

\* DialogWorker::handle_new_subscription: the new context (NoCtx when the
\* event is rejected), the registry, the store and the responses sent
handle_new_subscription(w, tbl, reg, st, did, ev) ==
    LET reject(status) ==
            [ctx |-> NoCtx, reg |-> reg, st |-> st,
             sent |-> IF ev.nua_handle # NullHandle /\ stack_mgr
                      THEN <<respond_to_subscribe(ev.nua_handle, status, 0)>>
                      ELSE <<>>,
             unref |-> IF ev.nua_handle # NullHandle /\ stack_mgr
                       THEN ev.nua_handle ELSE NullHandle]
    IN  IF count_by_tenant(reg, ev.tenant_id) >= max_subscriptions_per_tenant
        THEN reject(403)
        ELSE IF TableSize(tbl) >= max_dialogs_per_worker THEN reject(503)
        ELSE IF ev.sub_type = "kUnknown" THEN reject(489)
        ELSE
        LET rec == [DefaultRecord EXCEPT
                       !.dialog_id = did, !.tenant_id = ev.tenant_id,
                       !.type = ev.sub_type, !.lifecycle = "kPending",
                       !.expires_set = (ev.expires > 0),
                       !.blf_monitored_uri =
                           IF ev.sub_type = "kBLF" THEN ev.to_uri ELSE <<>>]
            info == [dialog_id |-> did, tenant_id |-> ev.tenant_id,
                     type |-> ev.sub_type, lifecycle |-> "kPending",
                     worker_index |-> w]
            st1 == IF mongo_enable_persistence
                   THEN Issued(save_immediately(st, rec), did, "kUpsert", StoreDoc(rec))
                   ELSE st
        IN  [ctx |-> IF st1.blocked THEN NoCtx
                     ELSE [record |-> rec, event_queue |-> <<>>,
                           nua_handle |-> ev.nua_handle],
             reg |-> register_subscription(reg, did, info),
             st |-> st1,
             sent |-> <<>>, unref |-> NullHandle]

\* DialogWorker::load_recovered_subscription on ww = [tbl, idx, reg]
load_recovered_subscription(w, ww, record) ==
    [tbl |-> IF ww.tbl[w][record.dialog_id] # NoCtx THEN ww.tbl
             ELSE [ww.tbl EXCEPT ![w][record.dialog_id] =
                      [record |-> record, event_queue |-> <<>>,
                       nua_handle |-> NullHandle]],
     idx |-> IF record.type = "kBLF" /\ record.blf_monitored_uri # <<>>
             THEN IndexAdd(ww.idx, record.blf_monitored_uri, record.dialog_id,
                           record.tenant_id)
             ELSE ww.idx,
     reg |-> register_subscription(ww.reg, record.dialog_id,
                [dialog_id |-> record.dialog_id, tenant_id |-> record.tenant_id,
                 type |-> record.type, lifecycle |-> record.lifecycle,
                 worker_index |-> w])]

\* SubscriptionStore::load_active_subscriptions: the stored dialog ids with
\* lifecycle Active or Pending
load_active_subscriptions(st) ==
    {d \in DOMAIN st.backend : st.backend[d].lifecycle \in {"Active", "Pending"}
                               /\ st.backend[d].dialog_id # ""}

\* variant of Recover that loads every record into the first worker
RECURSIVE Recover_into_first(_, _, _)
Recover_into_first(ww, st, dids) ==
    IF dids = {} THEN ww ELSE
    LET d == CHOOSE x \in dids : TRUE
    IN  Recover_into_first(load_recovered_subscription(0, ww,
                                                       RecordFromDoc(st.backend[d])),
                           st, dids \ {d})

\* the recovery loop of main
RECURSIVE Recover(_, _, _)
Recover(ww, st, dids) ==
    IF dids = {} THEN ww ELSE
    LET d == CHOOSE x \in dids : TRUE
    IN  Recover(load_recovered_subscription(worker_index_for(d), ww,
                                            RecordFromDoc(st.backend[d])),
                st, dids \ {d})

\* one iteration of the force-terminate loop of run on
\* ww = [tbl, idx, reg, st, sent]
ForceTerminateOne(ww, did) ==
    IF ww.tbl[did] = NoCtx THEN ww ELSE
    LET ctx == ww.tbl[did]
        w0 == [rec |-> ctx.record, nua_handle |-> ctx.nua_handle, sent |-> ww.sent,
               idx |-> ww.idx, st |-> ww.st, nver |-> 0]
        w1 == deindex_blf_subscription(w0, did)
        w2 == [w1 EXCEPT !.rec.lifecycle = "kTerminated"]
        w3 == IF ctx.nua_handle # NullHandle /\ stack_mgr THEN
                  IF w2.rec.type = "kBLF" THEN
                      send_sip_notify(w2, "application/dialog-info+xml",
                          EmptyDialogInfo(w2.rec.blf_notify_version,
                                          w2.rec.blf_monitored_uri),
                          "terminated")
                  ELSE IF w2.rec.type = "kMWI" THEN
                      send_sip_notify(w2, "application/simple-message-summary",
                                      MessagesWaitingNo, "terminated")
                  ELSE w2
              ELSE w2
        w4 == store_queue_delete(w3, did)
    IN  [tbl |-> [ww.tbl EXCEPT ![did] =
                     [record |-> w4.rec, event_queue |-> <<>>,
                      nua_handle |-> NullHandle]],
         idx |-> w4.idx,
         reg |-> unregister_subscription(ww.reg, did),
         st |-> w4.st,
         sent |-> w4.sent]

RECURSIVE ForceTerminateAll(_, _)
ForceTerminateAll(ww, dids) ==
    IF dids = <<>> THEN ww
    ELSE ForceTerminateAll(ForceTerminateOne(ww, Head(dids)), Tail(dids))

\* variant of CleanupRemoves that removes expired dialogs only
CleanupRemovesExpired(tbl, expired) ==
    {d \in DialogIds :
        /\ tbl[d] # NoCtx
        /\ tbl[d].event_queue = <<>>
        /\ d \in expired}

\* the dialogs cleanup_terminated_dialogs removes; expired holds the dialogs
\* whose expires_at the clock has passed
CleanupRemoves(tbl, expired) ==
    {d \in DialogIds :
        /\ tbl[d] # NoCtx
        /\ tbl[d].event_queue = <<>>
        /\ (tbl[d].record.lifecycle = "kTerminated" \/ d \in expired)}

RECURSIVE IndexRemoveDialogs(_, _, _)
IndexRemoveDialogs(idx, tbl, dids) ==
    IF dids = {} THEN idx ELSE
    LET d == CHOOSE x \in dids : TRUE
    IN  IndexRemoveDialogs(
            IF tbl[d].record.type = "kBLF" THEN IndexRemoveDialog(idx, d) ELSE idx,
            tbl, dids \ {d})

RECURSIVE UnregisterAll(_, _)
UnregisterAll(reg, dids) ==
    IF dids = {} THEN reg ELSE
    LET d == CHOOSE x \in dids : TRUE
    IN  UnregisterAll(unregister_subscription(reg, d), dids \ {d})

\* DialogWorker::cleanup_terminated_dialogs on ww = [tbl, idx, reg]
cleanup_terminated_dialogs(ww, expired) ==
    LET gone == CleanupRemoves(ww.tbl, expired)
    IN  [tbl |-> [d \in DialogIds |-> IF d \in gone THEN NoCtx ELSE ww.tbl[d]],
         idx |-> IndexRemoveDialogs(ww.idx, ww.tbl, gone),
         reg |-> UnregisterAll(ww.reg, gone)]

\* the dialogs one pass of process_dialog_queues visits with an event
DialogsWithEvents(tbl) ==
    {d \in DialogIds : tbl[d] # NoCtx /\ tbl[d].event_queue # <<>>}

\* the dialogs whose expires_at is set
WithExpiry(tbl) ==
    {d \in DialogIds : tbl[d] # NoCtx /\ tbl[d].record.expires_set}

(***************************************************************************)
(* Inputs of the environment.                                              *)
(***************************************************************************)
UserA == <<"a">>
UserB == <<"b">>
HostT == <<"T">>
HostU == <<"U">>

\* the headers of a SIP message as the stack hands them to nua_callback
SipMessage(nua_event, status, did, user, host, header, has_expires, delta, ss, payload) ==
    [nua_event |-> nua_event, status |-> status, dialog_id |-> did,
     to_user |-> user, to_host |-> host, event_header |-> header,
     has_expires |-> has_expires, ex_delta |-> delta, ss_substate |-> ss,
     payload |-> payload]

Subscribe(did, user, host, header, delta, ss) ==
    SipMessage("nua_i_subscribe", 0, did, user, host, header, TRUE, delta, ss, NoBody)

\* a response to a NOTIFY carries no Expires header
NotifyResponse(did, status) ==
    SipMessage("nua_r_notify", status, did, UserA, HostT, "dialog", FALSE, 0, "", NoBody)

Publish(did, payload) ==
    SipMessage("nua_i_publish", 0, did, UserA, HostT, "dialog", TRUE, 3600, "", payload)

SipInputs ==
    { Subscribe("D1", UserA, HostT, "dialog", 3600, ""),
      Subscribe("D1", UserA, HostT, "dialog", 0, ""),
      Subscribe("D1", UserA, HostT, "message-summary", 3600, ""),
      Subscribe("D1", UserA, HostT, "presence", 3600, ""),
      Subscribe("D1", UserA, HostT, "dialog", 3600, "terminated"),
      Subscribe("D2", UserA, HostT, "dialog", 3600, ""),
      Subscribe("D2", UserB, HostU, "dialog", 3600, ""),
      NotifyResponse("D1", 200),
      NotifyResponse("D1", 481),
      Publish("D1", DialogInfo(0, UriOf(UserB, HostU), "c9", "confirmed")) }

\* the call-state events of the presence feed
CallStateEvents ==
    { [presence_call_id |-> "c1", caller_uri |-> <<>>,
       callee_uri |-> UserA \o <<"@">> \o HostT, state |-> s, is_valid |-> TRUE]
      : s \in {"kRinging", "kConfirmed"} }

\* the record of dialog D1 as the worker stores it once the first SUBSCRIBE
\* has been processed
StoredActiveRecord ==
    [DefaultRecord EXCEPT
        !.dialog_id = "D1", !.tenant_id = HostT, !.type = "kBLF",
        !.lifecycle = "kActive", !.expires_set = TRUE, !.dirty = TRUE,
        !.blf_monitored_uri = UriOf(UserA, HostT)]

\* the contents of the store collection when the process starts
SeedBackends == { <<>>, "D1" :> StoreDoc(StoredActiveRecord) }

\* the reaper thread is in no get_stale_subscriptions call
NoScan == [w |-> -1, seen |-> {}]

\* no presence trigger was the last event processed for the dialog
NoRun == [state |-> "", call_id |-> "", n |-> 0]

(***************************************************************************)
(* PresenceFailoverManager.  servers_ is indexed from 0 as in the code, -1  *)
(* is "no index"; a TimePoint is a number and TimePoint{} is 0.             *)
(***************************************************************************)
\* PresenceServerEndpoint{}: the empty endpoint
NoEndpoint == [host |-> "", port |-> 0, priority |-> 0]

\* the constructor: one ServerHealth per configured endpoint, the cursor at
\* 0; now is what Clock::now() returns to the manager
NewManager(presence_servers, strategy, cooldown) ==
    [servers_ |-> [i \in 0..(Len(presence_servers) - 1) |->
                      [endpoint |-> presence_servers[i + 1], is_healthy |-> TRUE,
                       consecutive_failures |-> 0, cooldown_until |-> 0]],
     round_robin_index_ |-> 0,
     presence_failover_strategy |-> strategy,
     presence_server_cooldown |-> cooldown,
     now |-> 1]

\* the least index of a non-empty set of indexes
FirstOf(indexes) == CHOOSE i \in indexes : \A j \in indexes : i <= j

find_server(fm, ep) ==
    LET hits == {i \in DOMAIN fm.servers_ :
                    /\ fm.servers_[i].endpoint.host = ep.host
                    /\ fm.servers_[i].endpoint.port = ep.port}
    IN IF hits = {} THEN -1 ELSE FirstOf(hits)

\* variant of is_in_cooldown with the comparison turned round
is_in_cooldown_inverted(h, now) == h.cooldown_until # 0 /\ now > h.cooldown_until

is_in_cooldown(h, now) == h.cooldown_until # 0 /\ now < h.cooldown_until

\* the indexes of the servers that are not in cooldown
NotInCooldown(fm) == {i \in DOMAIN fm.servers_ : ~is_in_cooldown(fm.servers_[i], fm.now)}

\* the indexes of the servers that are healthy and not in cooldown
Available(fm) == {i \in NotInCooldown(fm) : fm.servers_[i].is_healthy}

\* one loop of select_round_robin: the first index from the cursor on, in
\* cyclic order, that is in candidates; -1 when there is none
FirstFromCursor(fm, candidates) ==
    LET n == Cardinality(DOMAIN fm.servers_)
        steps == {i \in 0..(n - 1) : ((fm.round_robin_index_ + i) % n) \in candidates}
    IN IF steps = {} THEN -1 ELSE (fm.round_robin_index_ + FirstOf(steps)) % n

\* variant of select_round_robin that leaves the cursor where it is
select_round_robin_stuck(fm) ==
    [idx |-> IF Available(fm) # {} THEN FirstFromCursor(fm, Available(fm))
             ELSE FirstFromCursor(fm, NotInCooldown(fm)),
     round_robin_index_ |-> fm.round_robin_index_]

\* the selection and the cursor after it
select_round_robin(fm) ==
    LET n == Cardinality(DOMAIN fm.servers_)
        idx == IF Available(fm) # {} THEN FirstFromCursor(fm, Available(fm))
               ELSE FirstFromCursor(fm, NotInCooldown(fm))
    IN [idx |-> idx,
        round_robin_index_ |-> IF idx >= 0 THEN (idx + 1) % n ELSE fm.round_robin_index_]

\* the first server, in configuration order, of the lowest priority value
\* among those not in cooldown
select_priority(fm) ==
    LET best == {i \in NotInCooldown(fm) :
                    \A j \in NotInCooldown(fm) :
                        \/ fm.servers_[i].endpoint.priority < fm.servers_[j].endpoint.priority
                        \/ /\ fm.servers_[i].endpoint.priority = fm.servers_[j].endpoint.priority
                           /\ i <= j}
    IN IF best = {} THEN -1 ELSE FirstOf(best)

\* the indexes select_random can return
select_random(fm) ==
    IF Available(fm) # {} THEN Available(fm)
    ELSE IF NotInCooldown(fm) # {} THEN NotInCooldown(fm)
    ELSE {-1}

\* the switch of get_next_server: the selections the strategy can make
Selections(fm) ==
    CASE fm.presence_failover_strategy = "kRoundRobin" -> {select_round_robin(fm)}
      [] fm.presence_failover_strategy = "kPriority" ->
            {[idx |-> select_priority(fm), round_robin_index_ |-> fm.round_robin_index_]}
      [] fm.presence_failover_strategy = "kRandom" ->
            {[idx |-> i, round_robin_index_ |-> fm.round_robin_index_] : i \in select_random(fm)}

\* the first server of the earliest cooldown_until
EarliestCooldown(fm) ==
    FirstOf({i \in DOMAIN fm.servers_ :
                \A j \in DOMAIN fm.servers_ :
                    fm.servers_[i].cooldown_until <= fm.servers_[j].cooldown_until})

\* variant of get_next_server without the all-in-cooldown fallback
get_next_server_no_fallback(fm, sel) ==
    IF DOMAIN fm.servers_ = {} \/ sel.idx < 0
    THEN [idx |-> -1, endpoint |-> NoEndpoint, fm |-> fm]
    ELSE [idx |-> sel.idx, endpoint |-> fm.servers_[sel.idx].endpoint,
          fm |-> [fm EXCEPT !.round_robin_index_ = sel.round_robin_index_]]

\* get_next_server after the strategy selected sel: the index, the endpoint
\* returned and the manager afterwards
get_next_server(fm, sel) ==
    IF DOMAIN fm.servers_ = {} THEN [idx |-> -1, endpoint |-> NoEndpoint, fm |-> fm]
    ELSE LET idx == IF sel.idx < 0 THEN EarliestCooldown(fm) ELSE sel.idx
         IN [idx |-> idx, endpoint |-> fm.servers_[idx].endpoint,
             fm |-> [fm EXCEPT !.round_robin_index_ = sel.round_robin_index_]]

report_success(fm, ep) ==
    IF find_server(fm, ep) < 0 THEN fm
    ELSE [fm EXCEPT !.servers_[find_server(fm, ep)] =
                       [@ EXCEPT !.is_healthy = TRUE, !.consecutive_failures = 0,
                                 !.cooldown_until = 0]]

\* std::min(consecutive_failures, 5)
Multiplier(consecutive_failures) ==
    IF consecutive_failures < 5 THEN consecutive_failures ELSE 5

\* variant of report_failure that never marks the server unhealthy
report_failure_lenient(fm, ep) ==
    IF find_server(fm, ep) < 0 THEN fm
    ELSE [fm EXCEPT !.servers_[find_server(fm, ep)] =
                       [@ EXCEPT !.consecutive_failures = @ + 1,
                                 !.cooldown_until =
                                     fm.now + fm.presence_server_cooldown
                                                 * Multiplier(fm.servers_[find_server(fm, ep)].consecutive_failures + 1)]]

report_failure(fm, ep) ==
    IF find_server(fm, ep) < 0 THEN fm
    ELSE [fm EXCEPT !.servers_[find_server(fm, ep)] =
                       [@ EXCEPT !.consecutive_failures = @ + 1,
                                 !.cooldown_until =
                                     fm.now + fm.presence_server_cooldown
                                                 * Multiplier(fm.servers_[find_server(fm, ep)].consecutive_failures + 1),
                                 !.is_healthy =
                                     IF fm.servers_[find_server(fm, ep)].consecutive_failures + 1 >= 3
                                     THEN FALSE ELSE @]]

healthy_count(fm) == Cardinality({i \in DOMAIN fm.servers_ : fm.servers_[i].is_healthy})

(***************************************************************************)
(* PresenceXmlParser.  Byte strings are sequences of characters; positions  *)
(* are 1-based and 0 is std::string::npos.                                  *)
(***************************************************************************)
\* std::string::find(pat, from) for a string pat
FindStr(s, pat, from) ==
    LET hits == {i \in from..(Len(s) - Len(pat) + 1) :
                    s[i] = pat[1] /\ SubSeq(s, i, i + Len(pat) - 1) = pat}
    IN IF hits = {} THEN 0 ELSE CHOOSE i \in hits : \A j \in hits : i <= j

\* "<" + tag + ">" and "</" + tag + ">"
OpenTag(tag) == <<"<">> \o tag \o <<">">>

CloseTag(tag) == <<"<", "/">> \o tag \o <<">">>
CallStateEventTag == <<"C", "a", "l", "l", "S", "t", "a", "t", "e", "E", "v", "e", "n", "t">>
CallIdTag == <<"C", "a", "l", "l", "I", "d">>
CallerUriTag == <<"C", "a", "l", "l", "e", "r", "U", "r", "i">>
CalleeUriTag == <<"C", "a", "l", "l", "e", "e", "U", "r", "i">>
DirectionTag == <<"D", "i", "r", "e", "c", "t", "i", "o", "n">>
TenantIdTag == <<"T", "e", "n", "a", "n", "t", "I", "d">>
TimestampTag == <<"T", "i", "m", "e", "s", "t", "a", "m", "p">>
StateTag == <<"S", "t", "a", "t", "e">>
HeartbeatTag == <<"H", "e", "a", "r", "t", "b", "e", "a", "t">>

\* the characters find_first_not_of(" \t\n\r") skips
Whitespace == {" ", "\t", "\n", "\r"}

\* val.erase(0, val.find_first_not_of(...)); val.erase(val.find_last_not_of(...) + 1)
RECURSIVE TrimWhitespace(_)
TrimWhitespace(val) ==
    IF val = <<>> THEN val
    ELSE IF Head(val) \in Whitespace THEN TrimWhitespace(Tail(val))
    ELSE IF val[Len(val)] \in Whitespace THEN TrimWhitespace(SubSeq(val, 1, Len(val) - 1))
    ELSE val

\* extract_element once the open tag was found at s (0: not found)
ElementFrom(xml, tag, s) ==
    IF s = 0 \/ FindStr(xml, CloseTag(tag), s + Len(OpenTag(tag))) = 0 THEN <<>>
    ELSE TrimWhitespace(SubSeq(xml, s + Len(OpenTag(tag)),
                               FindStr(xml, CloseTag(tag), s + Len(OpenTag(tag))) - 1))

extract_element(xml, tag) == ElementFrom(xml, tag, FindStr(xml, OpenTag(tag), 1))

\* std::transform(..., ::tolower)
Lowered(s) == [i \in 1..Len(s) |-> ToLower(s[i])]

\* parse_call_state on the lowered string
CallStateOf(l) ==
    CASE l \in {<<"t", "r", "y", "i", "n", "g">>, <<"s", "e", "t", "u", "p">>} -> "kTrying"
      [] l \in {<<"r", "i", "n", "g", "i", "n", "g">>, <<"e", "a", "r", "l", "y">>, <<"a", "l", "e", "r", "t", "i", "n", "g">>} -> "kRinging"
      [] l \in {<<"c", "o", "n", "f", "i", "r", "m", "e", "d">>, <<"c", "o", "n", "n", "e", "c", "t", "e", "d">>, <<"a", "c", "t", "i", "v", "e">>} -> "kConfirmed"
      [] l \in {<<"t", "e", "r", "m", "i", "n", "a", "t", "e", "d">>, <<"d", "i", "s", "c", "o", "n", "n", "e", "c", "t", "e", "d">>, <<"r", "e", "l", "e", "a", "s", "e", "d">>, <<"i", "d", "l", "e">>} -> "kTerminated"
      [] l \in {<<"h", "e", "l", "d">>, <<"h", "o", "l", "d">>} -> "kHeld"
      [] l \in {<<"r", "e", "s", "u", "m", "e", "d">>} -> "kResumed"
      [] OTHER -> "kUnknown"

parse_call_state(s) == CallStateOf(Lowered(s))

\* the validity rule of parse_single_event
EventValid(ev) ==
    /\ ev.presence_call_id # <<>>
    /\ ev.callee_uri # <<>> \/ ev.caller_uri # <<>>
    /\ ev.state # "kUnknown"

\* parse_single_event; id is what CallStateEvent::next_id() returns
parse_single_event(xml, id) ==
    [id |-> id,
     presence_call_id |-> extract_element(xml, CallIdTag),
     caller_uri |-> extract_element(xml, CallerUriTag),
     callee_uri |-> extract_element(xml, CalleeUriTag),
     direction |-> extract_element(xml, DirectionTag),
     tenant_id |-> extract_element(xml, TenantIdTag),
     timestamp_str |-> extract_element(xml, TimestampTag),
     state |-> parse_call_state(extract_element(xml, StateTag))]

\* the while loop of feed from search_pos on, with the events found so far
\* and the ids handed out: scan = [search_pos, events, id]
RECURSIVE ScanEvents(_, _)
ScanParsed(buffer, scan, e, ev) ==
    ScanEvents(buffer,
               [search_pos |-> e + Len(CloseTag(CallStateEventTag)),
                events |-> IF EventValid(ev) THEN Append(scan.events, ev) ELSE scan.events,
                id |-> ev.id])

ScanClosed(buffer, scan, s, e) ==
    IF e = 0 THEN scan
    ELSE ScanParsed(buffer, scan, e,
                    parse_single_event(
                        SubSeq(buffer, s, e + Len(CloseTag(CallStateEventTag)) - 1),
                        scan.id + 1))

ScanOpened(buffer, scan, s) ==
    IF s = 0 THEN scan
    ELSE ScanClosed(buffer, scan, s, FindStr(buffer, CloseTag(CallStateEventTag), s))

ScanEvents(buffer, scan) ==
    ScanOpened(buffer, scan, FindStr(buffer, OpenTag(CallStateEventTag), scan.search_pos))

\* the heartbeat block of feed: the position after a complete heartbeat
\* frame that starts at hb_s, 0 when there is none
HeartbeatEnd(buffer, hb_s) ==
    IF hb_s = 0 \/ FindStr(buffer, CloseTag(HeartbeatTag), hb_s) = 0 THEN 0
    ELSE FindStr(buffer, CloseTag(HeartbeatTag), hb_s) + Len(CloseTag(HeartbeatTag))

\* variant of DiscardGarbage that keeps nothing
DiscardAll(buffer) == <<>>

\* the end of feed: drop what precedes the first "<"
DiscardGarbage(buffer) ==
    IF Find(buffer, "<", 1) = 0 THEN <<>>
    ELSE SubSeq(buffer, Find(buffer, "<", 1), Len(buffer))

max_buffer_size_ == 1048576

\* feed after the event loop returned scan and the heartbeat block hb_end
FeedResult(buffer, scan, hb_end) ==
    [parser |-> [buffer_ |-> DiscardGarbage(
                                 SubSeq(buffer, IF hb_end # 0 THEN hb_end ELSE scan.search_pos,
                                        Len(buffer))),
                 id_counter_ |-> scan.id],
     events |-> scan.events,
     received_heartbeat |-> hb_end # 0,
     error |-> ""]

FeedScanned(buffer, scan) ==
    FeedResult(buffer, scan,
               HeartbeatEnd(buffer, FindStr(buffer, OpenTag(HeartbeatTag), scan.search_pos)))

\* PresenceXmlParser::feed(data, len) with len > 0: the parser afterwards
\* and the ParseResult
feed(p, data) ==
    IF Len(p.buffer_) + Len(data) > max_buffer_size_
    THEN [parser |-> [p EXCEPT !.buffer_ = <<>>], events |-> <<>>,
          received_heartbeat |-> FALSE, error |-> "Buffer overflow"]
    ELSE FeedScanned(p.buffer_ \o data,
                     ScanEvents(p.buffer_ \o data,
                                [search_pos |-> 1, events |-> <<>>, id |-> p.id_counter_]))

\* PresenceXmlParser after construction, with CallStateEvent::id_counter_
NewParser == [buffer_ |-> <<>>, id_counter_ |-> 0]

NoLast == [op |-> "none", w |-> 0, d |-> "", ev |-> NoEvent, result |-> ""]

(***************************************************************************)
(* Initial state: everything constructed, nothing started.                 *)
(***************************************************************************)
\* the state after construction with stack_mgr drawn from stacks, the queue
\* capacity from capacities, the stored collection from seeds, and budget
\* inputs to come
Constructed(stacks, capacities, seeds, budget) ==
    /\ started = FALSE
    /\ stack_mgr \in stacks
    /\ max_incoming_queue_per_worker \in capacities
    /\ phase = [w \in Workers |-> "idle"]
    /\ stop_requested = [w \in Workers |-> FALSE]
    /\ incoming_queue = [w \in Workers |-> <<>>]
    /\ local_batch = [w \in Workers |-> <<>>]
    /\ pending_terminates = [w \in Workers |-> <<>>]
    /\ dialogs = [w \in Workers |-> EmptyTable]
    /\ todo = [w \in Workers |-> {}]
    /\ process_cycle = [w \in Workers |-> 0]
    /\ notify_version_ = [w \in Workers |-> 0]
    /\ events_dropped = [w \in Workers |-> 0]
    /\ index = EmptyIndex
    /\ registry = EmptyRegistry
    /\ \E seed \in seeds : store = NewStore(seed)
    /\ event_queue_ = <<>>
    /\ router_dropped = 0
    /\ id_counter_ = 0
    /\ handle_refs = [h \in DialogIds |-> 0]
    /\ inputs = 0
    /\ input_budget = budget
    /\ reaper_scan = NoScan
    /\ sent = <<>>
    /\ last = NoLast
    /\ accepted = [d \in DialogIds |-> <<>>]
    /\ processed = [d \in DialogIds |-> <<>>]
    /\ versions = [d \in DialogIds |-> <<>>]
    /\ trigger_run = [d \in DialogIds |-> NoRun]

\* the presence feed's failover manager and parser after construction with
\* the configuration of Config::load_defaults
FeedConstructed ==
    /\ failover = NewManager(<<[host |-> "127.0.0.1", port |-> 9000, priority |-> 0]>>,
                             "kRoundRobin", 120)
    /\ parser = NewParser

\* the process starts on an empty collection with or without a stack manager
\* and with every queue capacity, or on a collection holding a subscription
\* with a stack manager and the largest capacity
Init ==
    /\ \/ Constructed(BOOLEAN, 1..MaxQueueCapacity, {<<>>}, MaxInputs)
       \/ Constructed({TRUE}, {MaxQueueCapacity}, SeedBackends \ {<<>>}, MaxInputs)
    /\ FeedConstructed

\* the versions of the dialog-info NOTIFY bodies in msgs sent on handle d
VersionsSent(msgs, d) ==
    LET hits == SelectSeq(msgs, LAMBDA m : m.msg = "notify" /\ m.handle = d
                                             /\ m.body.kind = "dialog-info")
    IN  [i \in 1..Len(hits) |-> hits[i].body.version]

(***************************************************************************)
(* Startup and the producers.                                              *)
(***************************************************************************)
\* main: recovery of the stored subscriptions, then DialogDispatcher::start
Start ==
    /\ ~started
    /\ \A w \in Workers : phase[w] = "idle"
    /\ LET ww == Recover([tbl |-> dialogs, idx |-> index, reg |-> registry], store,
                         IF mongo_enable_persistence
                         THEN load_active_subscriptions(store) ELSE {})
       IN  /\ dialogs' = ww.tbl
           /\ index' = ww.idx
           /\ registry' = ww.reg
    /\ started' = TRUE
    /\ phase' = [w \in Workers |-> "wait"]
    /\ sent' = <<>>
    /\ last' = NoLast
    /\ UNCHANGED <<stack_mgr, max_incoming_queue_per_worker, input_budget, failover, parser, reaper_scan, stop_requested, incoming_queue, local_batch,
                   pending_terminates, todo, process_cycle, notify_version_,
                   events_dropped, store, event_queue_, router_dropped, id_counter_, handle_refs,
                   inputs, accepted, processed, trigger_run, versions>>

\* variant of enqueue without the capacity check
enqueue_unbounded(w, queue, ev) ==
    IF stop_requested[w] THEN [result |-> "kShuttingDown", queue |-> queue, dropped |-> 0]
    ELSE [result |-> "kOk", queue |-> Append(queue, ev), dropped |-> 0]

\* DialogWorker::enqueue: the result and the queue afterwards
enqueue(w, queue, ev) ==
    IF stop_requested[w] THEN [result |-> "kShuttingDown", queue |-> queue, dropped |-> 0]
    ELSE IF Len(queue) >= max_incoming_queue_per_worker
    THEN [result |-> "kCapacityExceeded", queue |-> queue, dropped |-> 1]
    ELSE [result |-> "kOk", queue |-> Append(queue, ev), dropped |-> 0]

\* the longest dialog id DialogIdBuilder::is_valid accepts
kMaxDialogIdLen == 1024

\* DialogIdBuilder::is_valid
is_valid(dialog_id) == dialog_id # "" /\ Len(dialog_id) <= kMaxDialogIdLen

\* variant of dispatch without the started_ check
dispatch_unstarted(queues, ev) ==
    IF ~is_valid(ev.dialog_id) THEN
        [result |-> "kInvalidArgument", w |-> 0, queue |-> queues[0], dropped |-> 0]
    ELSE LET w == worker_index_for(ev.dialog_id)
             r == enqueue(w, queues[w], ev)
         IN  [result |-> r.result, w |-> w, queue |-> r.queue, dropped |-> r.dropped]

\* DialogDispatcher::dispatch: the result, the worker, its queue afterwards
dispatch(queues, ev) ==
    IF ~started THEN
        [result |-> "kShuttingDown", w |-> 0, queue |-> queues[0], dropped |-> 0]
    ELSE IF ~is_valid(ev.dialog_id) THEN
        [result |-> "kInvalidArgument", w |-> 0, queue |-> queues[0], dropped |-> 0]
    ELSE LET w == worker_index_for(ev.dialog_id)
             r == enqueue(w, queues[w], ev)
         IN  [result |-> r.result, w |-> w, queue |-> r.queue, dropped |-> r.dropped]

\* SipCallbackHandler::nua_callback for one message of the SIP stack; the
\* stack runs once the dispatcher has been started
NuaCallback(sip) ==
    /\ \E w \in Workers : phase[w] # "idle"
    /\ inputs < input_budget
    /\ inputs' = inputs + 1
    /\ LET nh == sip.dialog_id
           ev == create_from_sofia(id_counter_ + 1, sip.nua_event, sip.status, nh, sip)
           r == dispatch(incoming_queue, ev)
       IN  /\ id_counter_' = id_counter_ + 1
           /\ incoming_queue' = [incoming_queue EXCEPT ![r.w] = r.queue]
           /\ events_dropped' = [events_dropped EXCEPT ![r.w] = @ + r.dropped]
           \* nua_handle_ref before dispatch, nua_handle_unref when it fails
           /\ handle_refs' =
                  IF sip.nua_event = "nua_i_subscribe" /\ nh # NullHandle
                     /\ r.result = "kOk"
                  THEN [handle_refs EXCEPT ![nh] = @ + 1] ELSE handle_refs
           /\ accepted' = IF r.result = "kOk"
                          THEN [accepted EXCEPT ![ev.dialog_id] = Append(@, ev.id)]
                          ELSE accepted
           /\ sent' = IF r.result # "kOk" /\ sip.nua_event = "nua_i_subscribe"
                         /\ nh # NullHandle
                      THEN <<respond_to_subscribe(nh, 503, 0)>> ELSE <<>>
           /\ last' = [op |-> "enqueue", w |-> r.w, d |-> ev.dialog_id, ev |-> ev,
                       result |-> r.result]
    /\ UNCHANGED <<started, stack_mgr, max_incoming_queue_per_worker, input_budget, failover, parser, reaper_scan, phase, stop_requested, local_batch,
                   pending_terminates, dialogs, todo, process_cycle, notify_version_,
                   index, registry, store, event_queue_, router_dropped, processed, trigger_run,
                   versions>>

\* PresenceEventRouter::on_call_state_event
OnCallStateEvent(cse) ==
    /\ started
    /\ inputs < input_budget
    /\ inputs' = inputs + 1
    /\ IF Len(event_queue_) >= presence_max_pending_events
       THEN /\ router_dropped' = router_dropped + 1
            /\ event_queue_' = event_queue_
            /\ last' = [NoLast EXCEPT !.op = "presence_in", !.result = "dropped"]
       ELSE /\ event_queue_' = Append(event_queue_, cse)
            /\ router_dropped' = router_dropped
            /\ last' = [NoLast EXCEPT !.op = "presence_in", !.result = "queued"]
    /\ sent' = <<>>
    /\ UNCHANGED <<started, stack_mgr, max_incoming_queue_per_worker, input_budget, failover, parser, reaper_scan, phase, stop_requested, incoming_queue,
                   local_batch, pending_terminates, dialogs, todo, process_cycle,
                   notify_version_, events_dropped, index, registry, store,
                   id_counter_, handle_refs, accepted, processed, trigger_run, versions>>

\* the dispatch loop of process_call_state_event over the watchers found;
\* rs = [queues, dropped, id, accepted]
RECURSIVE RouteToWatchers(_, _, _, _)
RouteToWatchers(rs, watchers, caller_watchers, cse) ==
    IF watchers = <<>> THEN rs ELSE
    LET watcher == Head(watchers)
        monitored_uri ==
            IF \E i \in 1..Len(caller_watchers) :
                   caller_watchers[i].dialog_id = watcher.dialog_id
            THEN cse.caller_uri ELSE cse.callee_uri
        trigger == create_presence_trigger(rs.id + 1, watcher.dialog_id,
                                           watcher.tenant_id, cse, monitored_uri)
        r == dispatch(rs.queues, trigger)
    IN  RouteToWatchers(
            [queues |-> [rs.queues EXCEPT ![r.w] = r.queue],
             dropped |-> [rs.dropped EXCEPT ![r.w] = @ + r.dropped],
             id |-> rs.id + 1,
             accepted |-> IF r.result = "kOk"
                          THEN [rs.accepted EXCEPT ![watcher.dialog_id] =
                                   Append(@, rs.id + 1)]
                          ELSE rs.accepted],
            Tail(watchers), caller_watchers, cse)

\* one turn of PresenceEventRouter::router_thread_func with
\* process_call_state_event
RouterProcess ==
    /\ event_queue_ # <<>>
    /\ LET cse == Head(event_queue_)
           callee_watchers == IndexLookup(index, cse.callee_uri)
           caller_watchers == IndexLookup(index, cse.caller_uri)
           watchers == IF cse.is_valid THEN callee_watchers \o caller_watchers ELSE <<>>
           rs == RouteToWatchers([queues |-> incoming_queue, dropped |-> events_dropped,
                                  id |-> id_counter_, accepted |-> accepted],
                                 watchers, caller_watchers, cse)
       IN  /\ event_queue_' = Tail(event_queue_)
           /\ incoming_queue' = rs.queues
           /\ events_dropped' = rs.dropped
           /\ id_counter_' = rs.id
           /\ accepted' = rs.accepted
           \* stats_.watchers_not_found is raised when no watcher is found
           /\ last' = [NoLast EXCEPT !.op = "route",
                                     !.result = IF cse.is_valid /\ watchers = <<>>
                                                THEN "watchers_not_found" ELSE ""]
    /\ sent' = <<>>
    /\ UNCHANGED <<started, stack_mgr, max_incoming_queue_per_worker, input_budget, failover, parser, reaper_scan, phase, stop_requested, local_batch,
                   pending_terminates, dialogs, todo, process_cycle, notify_version_,
                   index, registry, store, router_dropped, handle_refs, inputs,
                   processed, trigger_run, versions>>

\* StaleSubscriptionReaper::scan_and_reap for one stale dialog:
\* DialogWorker::force_terminate and the queued store delete
ForceTerminate(w, d) ==
    /\ started
    /\ inputs < input_budget
    /\ dialogs[w][d] # NoCtx
    /\ dialogs[w][d].record.lifecycle # "kTerminated"
    /\ inputs' = inputs + 1
    /\ pending_terminates' = [pending_terminates EXCEPT ![w] = Append(@, d)]
    /\ store' = IF mongo_enable_persistence
                THEN Issued(queue_delete(store, d), d, "kDelete", <<>>) ELSE store
    /\ sent' = <<>>
    /\ last' = NoLast
    /\ UNCHANGED <<started, stack_mgr, max_incoming_queue_per_worker, input_budget, failover, parser, reaper_scan, phase, stop_requested, incoming_queue,
                   local_batch, dialogs, todo, process_cycle, notify_version_,
                   events_dropped, index, registry, event_queue_, router_dropped,
                   id_counter_, handle_refs, accepted, processed, trigger_run, versions>>

\* SubscriptionStore::flush_pending with a non-empty batch
FlushPending ==
    /\ store.pending_ops # <<>>
    /\ ~store.sync_blocked
    /\ store' = IF store.condition = "stalled"
                THEN [store EXCEPT !.pending_ops = <<>>, !.sync_blocked = TRUE]
                ELSE ApplyOps([store EXCEPT !.pending_ops = <<>>], store.pending_ops)
    /\ sent' = <<>>
    /\ last' = NoLast
    /\ UNCHANGED <<started, stack_mgr, max_incoming_queue_per_worker, input_budget, failover, parser, reaper_scan, phase, stop_requested, incoming_queue,
                   local_batch, pending_terminates, dialogs, todo, process_cycle,
                   notify_version_, events_dropped, index, registry, event_queue_,
                   router_dropped, id_counter_, handle_refs, inputs, accepted,
                   processed, trigger_run, versions>>

\* the backend starts to fail: the pool hands out no valid client
\* ("invalid"), the driver throws ("error"), or a call does not return
\* ("stalled")
BackendFault(c) ==
    /\ store.condition = "ok"
    /\ store' = [store EXCEPT !.condition = c]
    /\ sent' = <<>>
    /\ last' = NoLast
    /\ UNCHANGED <<started, stack_mgr, max_incoming_queue_per_worker, input_budget, failover, parser, reaper_scan, phase, stop_requested, incoming_queue,
                   local_batch, pending_terminates, dialogs, todo, process_cycle,
                   notify_version_, events_dropped, index, registry, event_queue_,
                   router_dropped, id_counter_, handle_refs, inputs, accepted,
                   processed, trigger_run, versions>>

\* the backend answers again; a call that does not return never does
BackendRecover ==
    /\ store.condition \in {"invalid", "error"}
    /\ store' = [store EXCEPT !.condition = "ok"]
    /\ sent' = <<>>
    /\ last' = NoLast
    /\ UNCHANGED <<started, stack_mgr, max_incoming_queue_per_worker, input_budget, failover, parser, reaper_scan, phase, stop_requested, incoming_queue,
                   local_batch, pending_terminates, dialogs, todo, process_cycle,
                   notify_version_, events_dropped, index, registry, event_queue_,
                   router_dropped, id_counter_, handle_refs, inputs, accepted,
                   processed, trigger_run, versions>>

(***************************************************************************)
(* The worker thread, DialogWorker::run.                                   *)
(***************************************************************************)
\* DialogWorker::release_nua_handle for every context of tbl_old whose handle
\* tbl_new no longer holds: the reference counts afterwards
AfterRelease(refs, tbl_old, tbl_new) ==
    [h \in DialogIds |->
        refs[h] - Cardinality({d \in DialogIds :
                                 /\ tbl_old[d] # NoCtx
                                 /\ tbl_old[d].nua_handle = h
                                 /\ (tbl_new[d] = NoCtx \/ tbl_new[d].nua_handle # h)})]

\* the end of a loop iteration of run on the table tbl: ++process_cycle_
\* and, every kCleanupInterval iterations, cleanup_terminated_dialogs
EndOfIteration(w, tbl, idx, reg) ==
    /\ process_cycle' = [process_cycle EXCEPT ![w] = (@ + 1) % kCleanupInterval]
    /\ IF (process_cycle[w] + 1) % kCleanupInterval = 0
       THEN \E expired \in SUBSET WithExpiry(tbl) :
               LET ww == cleanup_terminated_dialogs(
                             [tbl |-> tbl, idx |-> idx, reg |-> reg], expired)
               IN  /\ dialogs' = [dialogs EXCEPT ![w] = ww.tbl]
                   /\ index' = ww.idx
                   /\ registry' = ww.reg
       ELSE /\ dialogs' = [dialogs EXCEPT ![w] = tbl]
            /\ index' = idx
            /\ registry' = reg

\* wait_for returns (event, stop or timeout): either the final pass before
\* the thread exits, or the swap of the incoming queue followed by the
\* force-terminate loop; an iteration that finds no event to distribute or
\* process runs to its end
WorkerWake(w) ==
    /\ phase[w] = "wait"
    /\ IF stop_requested[w] /\ incoming_queue[w] = <<>> THEN
          /\ phase' = [phase EXCEPT ![w] =
                          IF DialogsWithEvents(dialogs[w]) = {} THEN "done" ELSE "final"]
          /\ todo' = [todo EXCEPT ![w] = DialogsWithEvents(dialogs[w])]
          /\ sent' = <<>>
          /\ UNCHANGED <<incoming_queue, local_batch, pending_terminates, dialogs,
                         index, registry, store, versions, process_cycle>>
       ELSE
          LET ww == ForceTerminateAll(
                        [tbl |-> dialogs[w], idx |-> index, reg |-> registry,
                         st |-> store, sent |-> <<>>],
                        pending_terminates[w])
          IN  /\ local_batch' = [local_batch EXCEPT ![w] = incoming_queue[w]]
              /\ incoming_queue' = [incoming_queue EXCEPT ![w] = <<>>]
              /\ pending_terminates' = [pending_terminates EXCEPT ![w] = <<>>]
              /\ store' = ww.st
              /\ sent' = ww.sent
              /\ versions' = [d \in DialogIds |->
                                 versions[d] \o VersionsSent(ww.sent, d)]
              /\ IF incoming_queue[w] # <<>> THEN
                    /\ phase' = [phase EXCEPT ![w] = "dist"]
                    /\ dialogs' = [dialogs EXCEPT ![w] = ww.tbl]
                    /\ index' = ww.idx
                    /\ registry' = ww.reg
                    /\ UNCHANGED <<todo, process_cycle>>
                 ELSE IF DialogsWithEvents(ww.tbl) # {} THEN
                    /\ phase' = [phase EXCEPT ![w] = "proc"]
                    /\ todo' = [todo EXCEPT ![w] = DialogsWithEvents(ww.tbl)]
                    /\ dialogs' = [dialogs EXCEPT ![w] = ww.tbl]
                    /\ index' = ww.idx
                    /\ registry' = ww.reg
                    /\ UNCHANGED process_cycle
                 ELSE
                    /\ EndOfIteration(w, ww.tbl, ww.idx, ww.reg)
                    /\ UNCHANGED <<phase, todo>>
    /\ handle_refs' = AfterRelease(handle_refs, dialogs[w], dialogs'[w])
    /\ last' = NoLast
    /\ UNCHANGED <<started, stack_mgr, max_incoming_queue_per_worker, input_budget, failover, parser, reaper_scan, stop_requested, notify_version_,
                   events_dropped, event_queue_, router_dropped, id_counter_,
                   inputs, accepted, processed, trigger_run>>

\* one iteration of the distribution loop of run; when the save of
\* handle_new_subscription does not return, the thread stays in it
WorkerDistribute(w) ==
    /\ phase[w] = "dist"
    /\ local_batch[w] # <<>>
    /\ LET ev == Head(local_batch[w])
           did == ev.dialog_id
           known == dialogs[w][did] # NoCtx
           fromFeed == ev.source = "kPresenceFeed"
           hn == IF known \/ fromFeed
                 THEN [ctx |-> dialogs[w][did], reg |-> registry, st |-> store,
                       sent |-> <<>>, unref |-> NullHandle]
                 ELSE handle_new_subscription(w, dialogs[w], registry, store, did, ev)
           tbl1 == IF hn.ctx = NoCtx THEN dialogs[w]
                   ELSE [dialogs[w] EXCEPT ![did] =
                            [hn.ctx EXCEPT !.event_queue = Append(@, ev)]]
           rest == IF hn.st.blocked THEN local_batch[w] ELSE Tail(local_batch[w])
       IN  /\ local_batch' = [local_batch EXCEPT ![w] = rest]
           /\ dialogs' = [dialogs EXCEPT ![w] = tbl1]
           /\ registry' = hn.reg
           /\ store' = [hn.st EXCEPT !.blocked = FALSE]
           /\ sent' = hn.sent
           /\ handle_refs' = IF hn.unref = NullHandle THEN handle_refs
                             ELSE [handle_refs EXCEPT ![hn.unref] = @ - 1]
           /\ events_dropped' = [events_dropped EXCEPT ![w] =
                                    IF hn.ctx = NoCtx /\ ~hn.st.blocked
                                    THEN @ + 1 ELSE @]
           /\ last' = [op |-> "distribute", w |-> w, d |-> did, ev |-> ev,
                       result |-> IF hn.st.blocked THEN "blocked"
                                  ELSE IF hn.ctx = NoCtx THEN "dropped"
                                  ELSE IF known THEN "queued" ELSE "created"]
           /\ IF hn.st.blocked
              THEN /\ phase' = [phase EXCEPT ![w] = "blocked"]
                   /\ UNCHANGED todo
              ELSE IF rest = <<>>
              THEN /\ phase' = [phase EXCEPT ![w] = "proc"]
                   /\ todo' = [todo EXCEPT ![w] = DialogsWithEvents(tbl1)]
              ELSE UNCHANGED <<phase, todo>>
    /\ UNCHANGED <<started, stack_mgr, max_incoming_queue_per_worker, input_budget, failover, parser, reaper_scan, stop_requested, incoming_queue,
                   pending_terminates, process_cycle, notify_version_, index,
                   event_queue_, router_dropped, id_counter_, inputs,
                   accepted, processed, trigger_run, versions>>

\* the run of identical presence triggers after ev has been processed
RunAfter(run, ev) ==
    IF ev.source # "kPresenceFeed" THEN NoRun
    ELSE [state |-> ev.presence_state, call_id |-> ev.presence_call_id,
          n |-> IF run.state = ev.presence_state /\ run.call_id = ev.presence_call_id
                THEN run.n + 1 ELSE 1]

\* variant of QueueFront that takes the newest event of the queue
QueueBack(q) == q[Len(q)]

\* std::queue::front of a per-dialog event queue
QueueFront(q) == Head(q)

\* one iteration of process_dialog_queues: the front event of dialog d is
\* popped and handled by process_event; when a save of process_event does not
\* return, the thread stays in it
WorkerProcess(w, d) ==
    /\ phase[w] \in {"proc", "final"}
    /\ d \in todo[w]
    /\ LET ctx == dialogs[w][d]
           ev == QueueFront(ctx.event_queue)
           wd == process_event([rec |-> ctx.record, nua_handle |-> ctx.nua_handle,
                                sent |-> <<>>, idx |-> index, st |-> store,
                                nver |-> notify_version_[w]],
                               d, ev)
       IN  /\ dialogs' = [dialogs EXCEPT ![w][d] =
                             [record |-> wd.rec, event_queue |-> Tail(ctx.event_queue),
                              nua_handle |-> wd.nua_handle]]
           /\ index' = wd.idx
           /\ store' = [wd.st EXCEPT !.blocked = FALSE]
           /\ notify_version_' = [notify_version_ EXCEPT ![w] = wd.nver]
           /\ sent' = wd.sent
           /\ versions' = [x \in DialogIds |-> versions[x] \o VersionsSent(wd.sent, x)]
           /\ IF wd.st.blocked
              THEN /\ phase' = [phase EXCEPT ![w] = "blocked"]
                   /\ last' = [op |-> "blocked", w |-> w, d |-> d, ev |-> ev,
                               result |-> "blocked"]
                   /\ UNCHANGED <<processed, trigger_run>>
              ELSE /\ processed' = [processed EXCEPT ![d] = Append(@, ev.id)]
                   /\ trigger_run' = [trigger_run EXCEPT ![d] = RunAfter(@, ev)]
                   /\ last' = [op |-> "process", w |-> w, d |-> d, ev |-> ev,
                               result |-> "kOk"]
                   /\ UNCHANGED phase
    /\ todo' = [todo EXCEPT ![w] = @ \ {d}]
    /\ UNCHANGED <<started, stack_mgr, max_incoming_queue_per_worker, input_budget, failover, parser,
                   reaper_scan, stop_requested, incoming_queue, local_batch,
                   pending_terminates, process_cycle, events_dropped, registry,
                   event_queue_, router_dropped, id_counter_, handle_refs, inputs,
                   accepted>>

\* the end of a loop iteration that processed events
WorkerEndCycle(w) ==
    /\ phase[w] = "proc"
    /\ todo[w] = {}
    /\ EndOfIteration(w, dialogs[w], index, registry)
    /\ phase' = [phase EXCEPT ![w] = "wait"]
    /\ sent' = <<>>
    /\ handle_refs' = AfterRelease(handle_refs, dialogs[w], dialogs'[w])
    /\ last' = NoLast
    /\ UNCHANGED <<started, stack_mgr, max_incoming_queue_per_worker, input_budget, failover, parser, reaper_scan, stop_requested, incoming_queue, local_batch,
                   pending_terminates, todo, notify_version_, events_dropped, store,
                   event_queue_, router_dropped, id_counter_, inputs, accepted,
                   processed, trigger_run, versions>>

\* the thread leaves run after the final pass
WorkerExit(w) ==
    /\ phase[w] = "final"
    /\ todo[w] = {}
    /\ phase' = [phase EXCEPT ![w] = "done"]
    /\ sent' = <<>>
    /\ last' = NoLast
    /\ UNCHANGED <<started, stack_mgr, max_incoming_queue_per_worker, input_budget, failover, parser, reaper_scan, stop_requested, incoming_queue, local_batch,
                   pending_terminates, dialogs, todo, process_cycle, notify_version_,
                   events_dropped, index, registry, store, event_queue_,
                   router_dropped, id_counter_, handle_refs, inputs, accepted,
                   processed, trigger_run, versions>>

(***************************************************************************)
(* Shutdown: DialogDispatcher::stop stops the workers in index order.      *)
(***************************************************************************)
\* DialogWorker::stop up to the join: stop_requested_ is set
StopRequest(w) ==
    /\ started
    /\ ~stop_requested[w]
    /\ \A v \in Workers : v < w => phase[v] = "joined"
    /\ stop_requested' = [stop_requested EXCEPT ![w] = TRUE]
    /\ sent' = <<>>
    /\ last' = NoLast
    /\ UNCHANGED <<started, stack_mgr, max_incoming_queue_per_worker, input_budget, failover, parser, reaper_scan, phase, incoming_queue, local_batch,
                   pending_terminates, dialogs, todo, process_cycle, notify_version_,
                   events_dropped, index, registry, store, event_queue_,
                   router_dropped, id_counter_, handle_refs, inputs, accepted,
                   processed, trigger_run, versions>>

\* DialogWorker::stop after the join: the dialogs are deindexed and cleared;
\* after the last worker DialogDispatcher::stop clears started_
StopJoin(w) ==
    /\ phase[w] = "done"
    /\ phase' = [phase EXCEPT ![w] = "joined"]
    /\ index' = IndexRemoveDialogs(index, dialogs[w],
                                   {d \in DialogIds : dialogs[w][d] # NoCtx})
    /\ dialogs' = [dialogs EXCEPT ![w] = EmptyTable]
    /\ started' = IF \A v \in Workers : v <= w THEN FALSE ELSE started
    /\ sent' = <<>>
    /\ handle_refs' = AfterRelease(handle_refs, dialogs[w], dialogs'[w])
    /\ last' = NoLast
    /\ UNCHANGED <<stack_mgr, max_incoming_queue_per_worker, input_budget, failover, parser, reaper_scan, stop_requested, incoming_queue, local_batch,
                   pending_terminates, todo, process_cycle, notify_version_,
                   events_dropped, registry, store, event_queue_, router_dropped,
                   id_counter_, inputs, accepted, processed, trigger_run, versions>>

Next ==
    \/ Start
    \/ \E sip \in SipInputs : NuaCallback(sip)
    \/ \E cse \in CallStateEvents : OnCallStateEvent(cse)
    \/ RouterProcess
    \/ \E w \in Workers, d \in DialogIds : ForceTerminate(w, d)
    \/ FlushPending
    \/ \E w \in Workers : WorkerWake(w)
    \/ \E w \in Workers : WorkerDistribute(w)
    \/ \E w \in Workers, d \in DialogIds : WorkerProcess(w, d)
    \/ \E w \in Workers : WorkerEndCycle(w)
    \/ \E w \in Workers : WorkerExit(w)
    \/ \E w \in Workers : StopRequest(w)
    \/ \E w \in Workers : StopJoin(w)

Spec == Init /\ [][Next]_vars

(***************************************************************************)
(* Properties.                                                             *)
(***************************************************************************)
Tenants == {HostT, HostU}

InSeq(x, seq) == \E i \in 1..Len(seq) : seq[i] = x

StrictlyIncreasing(seq) ==
    \A i, j \in 1..Len(seq) : i < j => seq[i] < seq[j]

\* the step just taken is process_event of worker w on dialog d
ProcessStep(w, d) == last'.op = "process" /\ last'.w = w /\ last'.d = d

\* the records of all workers that belong to tenant t and are not Terminated
LiveRecords(t) ==
    {wd \in Workers \X DialogIds :
        /\ dialogs[wd[1]][wd[2]] # NoCtx
        /\ dialogs[wd[1]][wd[2]].record.tenant_id = t
        /\ dialogs[wd[1]][wd[2]].record.lifecycle # "kTerminated"}

\* C1: the watcher index and the dialog tables agree in both directions:
\* every Active BLF record with a non-empty monitored URI is returned as
\* (dialog_id, tenant_id) by lookup(blf_monitored_uri), and every index entry
\* (uri, dialog_id) belongs to an existing Active BLF record whose normalized
\* monitored URI is uri.
C1_IndexAgreesWithDialogs ==
    /\ \A w \in Workers, d \in DialogIds :
          (/\ dialogs[w][d] # NoCtx
           /\ dialogs[w][d].record.type = "kBLF"
           /\ dialogs[w][d].record.lifecycle = "kActive"
           /\ dialogs[w][d].record.blf_monitored_uri # <<>>)
          => InSeq([dialog_id |-> d, tenant_id |-> dialogs[w][d].record.tenant_id],
                   IndexLookup(index, dialogs[w][d].record.blf_monitored_uri))
    /\ \A uri \in DOMAIN index.u2w :
          \A i \in 1..Len(index.u2w[uri]) :
             \E w \in Workers :
                LET ctx == dialogs[w][index.u2w[uri][i].dialog_id]
                IN  /\ ctx # NoCtx
                    /\ ctx.record.type = "kBLF"
                    /\ ctx.record.lifecycle = "kActive"
                    /\ normalize_uri(ctx.record.blf_monitored_uri) = uri

\* C2: processing a presence trigger for an Active dialog changes neither
\* the dialog's lifecycle nor its membership in the watcher index.
C2_PresenceTriggerKeepsActive ==
    [][\A w \in Workers, d \in DialogIds :
          (/\ ProcessStep(w, d)
           /\ last'.ev.source = "kPresenceFeed"
           /\ dialogs[w][d].record.lifecycle = "kActive")
          => /\ dialogs'[w][d].record.lifecycle = "kActive"
             /\ index' = index]_vars

\* C3: for every dialog the versions of the dialog-info bodies sent to it
\* form a strictly increasing sequence.
C3_VersionsStrictlyIncrease ==
    \A d \in DialogIds : StrictlyIncreasing(versions[d])

\* C5: count_by_tenant(t) equals the number of records of tenant t, over all
\* workers, whose lifecycle is not Terminated.
C5_TenantCountMatchesLiveRecords ==
    \A t \in Tenants : count_by_tenant(registry, t) = Cardinality(LiveRecords(t))

\* the position of x in seq
PosIn(seq, x) == CHOOSE i \in 1..Len(seq) : seq[i] = x

\* the workers that hold a context or an event of dialog d
WorkersHolding(d) ==
    {w \in Workers :
        \/ dialogs[w][d] # NoCtx
        \/ \E i \in 1..Len(incoming_queue[w]) : incoming_queue[w][i].dialog_id = d
        \/ \E i \in 1..Len(local_batch[w]) : local_batch[w][i].dialog_id = d}

\* C4: the events of a dialog are held by one worker, and that worker
\* processes them in the order in which enqueue accepted them.
C4_PerDialogFifo ==
    \A d \in DialogIds :
       /\ Cardinality(WorkersHolding(d)) <= 1
       /\ \A i \in 1..Len(processed[d]) : InSeq(processed[d][i], accepted[d])
       /\ \A i, j \in 1..Len(processed[d]) :
             i < j => PosIn(accepted[d], processed[d][i]) < PosIn(accepted[d], processed[d][j])

\* two events of one dialog, one from the SIP stack and one from the
\* presence router or both from the stack, have been processed
C4_Witness ==
    \E d \in DialogIds : Len(processed[d]) >= 2 /\ Len(accepted[d]) >= 2

\* the number of triggers RouterProcess dispatches to worker w
TriggersTo(w) ==
    IF event_queue_ = <<>> \/ ~Head(event_queue_).is_valid THEN 0
    ELSE Len(SelectSeq(IndexLookup(index, Head(event_queue_).callee_uri)
                       \o IndexLookup(index, Head(event_queue_).caller_uri),
                       LAMBDA x : worker_index_for(x.dialog_id) = w))

Min(a, b) == IF a <= b THEN a ELSE b

QueuesWithinBounds ==
    /\ \A w \in Workers : Len(incoming_queue[w]) <= max_incoming_queue_per_worker
    /\ Len(event_queue_) <= presence_max_pending_events

\* the router queue rejects a call-state event when it is full
RouterQueueRejectsWhenFull ==
    (last'.op = "presence_in" /\ Len(event_queue_) >= presence_max_pending_events)
    => /\ event_queue_' = event_queue_
       /\ router_dropped' = router_dropped + 1

\* C6 as stated: whenever the worker queue or the router queue holds its
\* maximum, an enqueue is rejected (CapacityExceeded from the worker), the
\* queue is unchanged and events_dropped rises by exactly one; the queue
\* lengths never exceed the maximum.
C6_FullQueueRejects ==
    [][/\ (last'.op = "enqueue" /\ started
           /\ Len(incoming_queue[last'.w]) >= max_incoming_queue_per_worker)
          => /\ last'.result = "kCapacityExceeded"
             /\ incoming_queue' = incoming_queue
             /\ events_dropped'[last'.w] = events_dropped[last'.w] + 1
       /\ RouterQueueRejectsWhenFull
       /\ QueuesWithinBounds']_vars

\* C6 amended: a worker that has not been asked to stop rejects an enqueue
\* on a full queue with CapacityExceeded, queue unchanged, events_dropped
\* one higher; once stop has been requested enqueue returns ShuttingDown and
\* changes neither the queue nor events_dropped; the triggers the router
\* dispatches are accepted up to the maximum and the rest counted as
\* dropped; the router queue rejects when full with its events_dropped one
\* higher; no queue ever exceeds its maximum.
C6_FullQueueRejectsUnlessStopping ==
    [][/\ (last'.op = "enqueue" /\ started /\ ~stop_requested[last'.w]
           /\ Len(incoming_queue[last'.w]) >= max_incoming_queue_per_worker)
          => /\ last'.result = "kCapacityExceeded"
             /\ incoming_queue' = incoming_queue
             /\ events_dropped'[last'.w] = events_dropped[last'.w] + 1
       /\ (last'.op = "enqueue" /\ started /\ stop_requested[last'.w])
          => /\ last'.result = "kShuttingDown"
             /\ incoming_queue' = incoming_queue
             /\ events_dropped' = events_dropped
       /\ (last'.op = "route" /\ started)
          => \A w \in Workers :
                ~stop_requested[w]
                => /\ Len(incoming_queue'[w]) =
                         Min(max_incoming_queue_per_worker,
                             Len(incoming_queue[w]) + TriggersTo(w))
                   /\ SubSeq(incoming_queue'[w], 1, Len(incoming_queue[w]))
                         = incoming_queue[w]
                   /\ events_dropped'[w] = events_dropped[w] + Len(incoming_queue[w])
                         + TriggersTo(w) - Len(incoming_queue'[w])
       /\ RouterQueueRejectsWhenFull
       /\ QueuesWithinBounds']_vars

\* an enqueue has just been rejected by a full worker queue
C6_Witness ==
    /\ last.op = "enqueue"
    /\ last.result = "kCapacityExceeded"
    /\ Len(incoming_queue[last.w]) = max_incoming_queue_per_worker
    /\ events_dropped[last.w] >= 1

\* msgs is a 200 OK followed by exactly one NOTIFY with the given
\* Subscription-State
OkThenOneNotify(msgs, sub_state) ==
    /\ Len(msgs) = 2
    /\ msgs[1].msg = "response" /\ msgs[1].status = 200
    /\ msgs[2].msg = "notify" /\ msgs[2].sub_state = sub_state

\* worker w, which has a SIP stack, processes an incoming SUBSCRIBE with
\* Expires > 0 on the Pending dialog d, which holds a valid handle
PendingSubscribeStep(w, d) ==
    /\ ProcessStep(w, d)
    /\ stack_mgr
    /\ dialogs[w][d].nua_handle # NullHandle
    /\ dialogs[w][d].record.lifecycle = "kPending"
    /\ IsIncomingSubscribe(last'.ev)
    /\ last'.ev.expires > 0

\* after the step dialog d of worker w is Active, indexed if BLF, answered
\* with 200 OK and one initial NOTIFY, and written to the store
ActivatedAfter(w, d) ==
    LET rec == dialogs'[w][d].record
    IN  /\ rec.lifecycle = "kActive"
        /\ rec.type = "kBLF"
           => InSeq([dialog_id |-> d, tenant_id |-> rec.tenant_id],
                    IndexLookup(index', rec.blf_monitored_uri))
        /\ OkThenOneNotify(sent', "active")
        /\ d \in DOMAIN store'.backend
        /\ store'.backend[d] = StoreDoc(rec)

\* C7 as stated: a Pending dialog with a stack and a valid handle that
\* processes an incoming SUBSCRIBE with Expires > 0 becomes Active, is
\* indexed if BLF, gets 200 OK and then exactly one initial NOTIFY (active),
\* and is written to the store immediately.
C7_PendingSubscribeActivates ==
    [][\A w \in Workers, d \in DialogIds :
          PendingSubscribeStep(w, d) => ActivatedAfter(w, d)]_vars

\* C7 amended: the same for a SUBSCRIBE that does not carry
\* Subscription-State: terminated.
C7_PendingSubscribeActivatesUnlessTerminated ==
    [][\A w \in Workers, d \in DialogIds :
          (PendingSubscribeStep(w, d) /\ last'.ev.subscription_state # "terminated")
          => ActivatedAfter(w, d)]_vars

\* a SUBSCRIBE with Expires > 0 has just activated a BLF dialog: 200 OK and
\* the initial NOTIFY were sent and the dialog is indexed and stored
C7_Witness ==
    /\ last.op = "process"
    /\ IsIncomingSubscribe(last.ev)
    /\ last.ev.expires > 0
    /\ last.ev.subscription_state # "terminated"
    /\ OkThenOneNotify(sent, "active")
    /\ dialogs[last.w][last.d].record.lifecycle = "kActive"
    /\ dialogs[last.w][last.d].record.type = "kBLF"
    /\ last.d \in DOMAIN index.d2u
    /\ store.backend[last.d].lifecycle = "Active"

\* C8: from any lifecycle state, processing an incoming SUBSCRIBE with
\* Expires = 0 makes the dialog Terminated and not indexed, sends 200 OK and
\* then exactly one final NOTIFY (terminated; empty dialog-info for BLF,
\* Messages-Waiting: no for MWI), writes the record to the store at once and
\* queues a store delete for the dialog.
C8_UnsubscribeTerminates ==
    [][\A w \in Workers, d \in DialogIds :
          (ProcessStep(w, d) /\ IsIncomingSubscribe(last'.ev) /\ last'.ev.expires = 0)
          => LET rec == dialogs'[w][d].record
             IN  /\ rec.lifecycle = "kTerminated"
                 /\ d \notin DOMAIN index'.d2u
                 /\ OkThenOneNotify(sent', "terminated")
                 /\ rec.type = "kBLF"
                    => sent'[2].body.kind = "dialog-info" /\ ~sent'[2].body.has_dialog
                 /\ rec.type = "kMWI" => sent'[2].body = MessagesWaitingNo
                 /\ d \in DOMAIN store'.backend
                 /\ store'.backend[d] = StoreDoc(rec)
                 /\ store'.pending_ops = Append(store.pending_ops,
                        [type |-> "kDelete", record |-> DefaultRecord, dialog_id |-> d])]_vars

\* the response admission sends for ev in the table tbl of a worker
RejectionStatus(tbl, ev) ==
    IF count_by_tenant(registry, ev.tenant_id) >= max_subscriptions_per_tenant THEN 403
    ELSE IF TableSize(tbl) >= max_dialogs_per_worker THEN 503
    ELSE 489

\* C9: a SUBSCRIBE for an unknown dialog that fails admission is answered
\* with exactly one response (403, 503 or 489 by the failed check) and
\* creates no record, no registry entry, no index entry and no store write.
C9_RejectedSubscribeAnswered ==
    [][\A w \in Workers :
          (/\ last'.op = "distribute" /\ last'.w = w /\ last'.result = "dropped"
           /\ IsIncomingSubscribe(last'.ev))
          => /\ Len(sent') = 1
             /\ sent'[1].msg = "response"
             /\ sent'[1].status = RejectionStatus(dialogs[w], last'.ev)
             /\ dialogs' = dialogs
             /\ registry' = registry
             /\ index' = index
             /\ store' = store]_vars

\* C10: a 2xx response to an outgoing NOTIFY changes neither the dialog's
\* lifecycle nor the watcher index nor the stored documents, and queues no
\* store delete.
C10_NotifyOkChangesNothing ==
    [][\A w \in Workers, d \in DialogIds :
          (/\ ProcessStep(w, d)
           /\ last'.ev.category = "kNotify" /\ last'.ev.direction = "kOutgoing"
           /\ last'.ev.status >= 200 /\ last'.ev.status < 300)
          => /\ dialogs'[w][d].record.lifecycle = dialogs[w][d].record.lifecycle
             /\ index' = index
             /\ store'.backend = store.backend
             /\ \A i \in 1..Len(store'.pending_ops) :
                   i > Len(store.pending_ops) => store'.pending_ops[i].type # "kDelete"]_vars

(***************************************************************************)
(* The presence path on its own: one subscriber, the call-state feed, the  *)
(* router and the worker threads, with one input more than Spec takes.     *)
(***************************************************************************)
InitPresence == Constructed({TRUE}, {MaxQueueCapacity}, {<<>>}, MaxInputs + 1) /\ FeedConstructed

NextPresence ==
    \/ Start
    \/ NuaCallback(Subscribe("D1", UserA, HostT, "dialog", 3600, ""))
    \/ \E cse \in CallStateEvents : OnCallStateEvent(cse)
    \/ RouterProcess
    \/ \E w \in Workers : WorkerWake(w)
    \/ \E w \in Workers : WorkerDistribute(w)
    \/ \E w \in Workers, d \in DialogIds : WorkerProcess(w, d)
    \/ \E w \in Workers : WorkerEndCycle(w)

SpecPresence == InitPresence /\ [][NextPresence]_vars

\* a NOTIFY is among the messages msgs
HasNotify(msgs) == \E i \in 1..Len(msgs) : msgs[i].msg = "notify"

\* C11: for any dialog, when two consecutive presence triggers carry the same
\* (state, presence_call_id), processing the second one sends no NOTIFY.
C11_DuplicateTriggerSilent ==
    [][\A w \in Workers, d \in DialogIds :
          ProcessStep(w, d) /\ trigger_run'[d].n >= 2 => ~HasNotify(sent')]_vars

\* the second of two identical triggers has just been processed for a dialog
\* that got a NOTIFY for the first one
C11_Witness ==
    \E d \in DialogIds :
        /\ last.op = "process" /\ last.d = d /\ last.ev.source = "kPresenceFeed"
        /\ trigger_run[d].n = 2
        /\ Len(versions[d]) >= 2
        /\ sent = <<>>

(***************************************************************************)
(* A process that starts on a store holding one Active BLF subscription    *)
(* that has been notified before.                                          *)
(***************************************************************************)
\* the stored record: dialog D1, Active, with the body of its last NOTIFY
StoredNotifiedRecord ==
    [StoredActiveRecord EXCEPT
        !.blf_last_state = "confirmed", !.blf_presence_call_id = "c0",
        !.blf_last_notify_body =
            DialogInfo(0, UriOf(UserA, HostT), "c0", "confirmed"),
        !.blf_notify_version = 1]

SeedRecovery == "D1" :> StoreDoc(StoredNotifiedRecord)

InitRecovery == Constructed(BOOLEAN, {MaxQueueCapacity}, {SeedRecovery}, MaxInputs) /\ FeedConstructed

SpecRecovery == InitRecovery /\ [][Next]_vars

\* the records the recovery loop of main loads from the collection backend
LoadedRecords(backend) ==
    [d \in load_active_subscriptions(NewStore(backend)) |->
        RecordFromDoc(backend[d])]

\* the loaded records that presence is routed to: Active BLF with a monitored URI
RecoveredActiveBlf(recs) ==
    {d \in DOMAIN recs : /\ recs[d].type = "kBLF" /\ recs[d].lifecycle = "kActive"
                         /\ recs[d].blf_monitored_uri # <<>>}

\* after the step that recovers and starts, every such record is in the table
\* of worker hash(dialog_id) mod W, in the watcher index and in the registry
RecoveredAtStart ==
    ~started /\ started' =>
        \A d \in RecoveredActiveBlf(LoadedRecords(store.backend)) :
            /\ dialogs'[worker_index_for(d)][d] # NoCtx
            /\ dialogs'[worker_index_for(d)][d].record = RecordFromDoc(store.backend[d])
            /\ InSeq([dialog_id |-> d, tenant_id |-> store.backend[d].tenant_id],
                     IndexLookup(index', store.backend[d].blf_monitored_uri))
            /\ d \in DOMAIN registry'.subscriptions
            /\ registry'.subscriptions[d].worker_index = worker_index_for(d)

\* the step just taken distributed a presence trigger of dialog d
TriggerDistributed(d) ==
    last'.op = "distribute" /\ last'.d = d /\ last'.ev.source = "kPresenceFeed"

C13_RefreshResendsStoredBody ==
    [][\A w \in Workers, d \in RecoveredActiveBlf(LoadedRecords(SeedRecovery)) :
          /\ ProcessStep(w, d)
          /\ processed[d] = <<>>
          /\ dialogs[w][d].record = RecordFromDoc(SeedRecovery[d])
          /\ dialogs[w][d].record.blf_last_notify_body # NoBody
          /\ IsIncomingSubscribe(last'.ev)
          /\ last'.ev.expires > 0 /\ last'.ev.subscription_state # "terminated"
          => \E i \in 1..Len(sent') :
                 /\ sent'[i].msg = "notify"
                 /\ sent'[i].body = RecordFromDoc(SeedRecovery[d]).blf_last_notify_body]_vars

(***************************************************************************)
(* Shutdown under load: one subscriber sends a burst of requests on one    *)
(* dialog while DialogDispatcher::stop runs; the queue holds one event     *)
(* more and the burst is one input longer than in Spec.                    *)
(***************************************************************************)
InitStop == Constructed({TRUE}, {MaxQueueCapacity + 1}, {<<>>}, MaxInputs + 1) /\ FeedConstructed

NextStop ==
    \/ Start
    \/ NuaCallback(Subscribe("D1", UserA, HostT, "dialog", 3600, ""))
    \/ \E w \in Workers : WorkerWake(w)
    \/ \E w \in Workers : WorkerDistribute(w)
    \/ \E w \in Workers, d \in DialogIds : WorkerProcess(w, d)
    \/ \E w \in Workers : WorkerEndCycle(w)
    \/ \E w \in Workers : WorkerExit(w)
    \/ \E w \in Workers : StopRequest(w)
    \/ \E w \in Workers : StopJoin(w)

SpecStop == InitStop /\ [][NextStop]_vars

\* the events sitting in the per-dialog queues of table tbl
RECURSIVE QueuedEvents(_, _)
QueuedEvents(tbl, dids) ==
    IF dids = {} THEN 0 ELSE
    LET d == CHOOSE x \in dids : TRUE
    IN  (IF tbl[d] = NoCtx THEN 0 ELSE Len(tbl[d].event_queue))
        + QueuedEvents(tbl, dids \ {d})

\* C14: when DialogWorker::stop returns, no accepted event is left in the
\* worker's incoming queue or in a per-dialog queue: at the moment stop clears
\* the dialog table after the join, all those queues are empty, and every
\* dialog of the worker has had as many events processed or counted in
\* events_dropped as were accepted for it.
C14_StopLeavesNoEvent ==
    [][\A w \in Workers :
          phase[w] = "done" /\ phase'[w] = "joined" =>
              /\ incoming_queue[w] = <<>>
              /\ local_batch[w] = <<>>
              /\ QueuedEvents(dialogs[w], DialogIds) = 0
              /\ \A d \in DialogIds :
                     worker_index_for(d) = w =>
                         Len(accepted[d]) <= Len(processed[d]) + events_dropped[w]]_vars

\* an event of sequence q carries handle h
CarriedIn(q, h) == \E i \in 1..Len(q) : q[i].nua_handle = h

\* handle h is held by no dialog context and carried by no event still queued
HandleIdle(h) ==
    \A w \in Workers :
        /\ ~CarriedIn(incoming_queue[w], h)
        /\ ~CarriedIn(local_batch[w], h)
        /\ \A d \in DialogIds :
               dialogs[w][d] = NoCtx
               \/ (dialogs[w][d].nua_handle # h /\ ~CarriedIn(dialogs[w][d].event_queue, h))

\* C15: for each SIP handle, the references released never exceed the
\* references nua_callback took for incoming SUBSCRIBEs, and equal them once
\* no dialog holds the handle and no queued event carries it.
C15_HandleRefsBalanced ==
    \A h \in DialogIds :
        /\ handle_refs[h] >= 0
        /\ HandleIdle(h) => handle_refs[h] = 0

(***************************************************************************)
(* The reaper thread next to the worker threads: scan_and_reap calls       *)
(* get_stale_subscriptions of a worker, which walks dialogs_ while the     *)
(* worker thread runs, and then force-terminates what it found.            *)
(***************************************************************************)
\* the dialogs get_stale_subscriptions can report from table tbl: the clock
\* decides which of the records that are not Terminated are stale or stuck
StaleCandidates(tbl) ==
    {d \in DialogIds : tbl[d] # NoCtx /\ tbl[d].record.lifecycle # "kTerminated"}

\* the loop of scan_and_reap over the stale dialogs: force_terminate and the
\* queued store delete; rp = [pending, st]
RECURSIVE ReapAll(_, _)
ReapAll(rp, stale) ==
    IF stale = {} THEN rp ELSE
    LET d == CHOOSE x \in stale : TRUE
    IN  ReapAll([pending |-> Append(rp.pending, d),
                 st |-> IF mongo_enable_persistence
                        THEN Issued(queue_delete(rp.st, d), d, "kDelete", <<>>)
                        ELSE rp.st],
                stale \ {d})

\* the reaper thread enters get_stale_subscriptions of worker w and reads
\* the first records
ReaperScanBegin(w) ==
    /\ started
    /\ reaper_scan = NoScan
    /\ reaper_scan' = [w |-> w, seen |-> StaleCandidates(dialogs[w])]
    /\ sent' = <<>>
    /\ last' = NoLast
    /\ UNCHANGED <<started, stack_mgr, max_incoming_queue_per_worker, input_budget, failover, parser,
                   phase, stop_requested, incoming_queue, local_batch,
                   pending_terminates, dialogs, todo, process_cycle, notify_version_,
                   events_dropped, index, registry, store, event_queue_,
                   router_dropped, id_counter_, handle_refs, inputs, accepted,
                   processed, trigger_run, versions>>

\* get_stale_subscriptions returns and scan_and_reap reaps: the walk was not
\* synchronized with the worker thread, so it reports records it read before
\* or after the worker's changes
ReaperScanEnd(w) ==
    /\ reaper_scan.w = w
    /\ \E stale \in SUBSET (reaper_scan.seen \cup StaleCandidates(dialogs[w])) :
          /\ inputs + Cardinality(stale) <= input_budget
          /\ inputs' = inputs + Cardinality(stale)
          /\ LET rp == ReapAll([pending |-> pending_terminates[w], st |-> store], stale)
             IN  /\ pending_terminates' = [pending_terminates EXCEPT ![w] = rp.pending]
                 /\ store' = rp.st
    /\ reaper_scan' = NoScan
    /\ sent' = <<>>
    /\ last' = NoLast
    /\ UNCHANGED <<started, stack_mgr, max_incoming_queue_per_worker, input_budget, failover, parser,
                   phase, stop_requested, incoming_queue, local_batch, dialogs, todo,
                   process_cycle, notify_version_, events_dropped, index, registry,
                   event_queue_, router_dropped, id_counter_, handle_refs, accepted,
                   processed, trigger_run, versions>>

InitReaper == Constructed({TRUE}, {1}, {<<>>}, MaxInputs) /\ FeedConstructed

NextReaper ==
    \/ Start
    \/ NuaCallback(Subscribe("D1", UserA, HostT, "dialog", 3600, ""))
    \/ \E w \in Workers : ReaperScanBegin(w)
    \/ \E w \in Workers : ReaperScanEnd(w)
    \/ \E w \in Workers : WorkerWake(w)
    \/ \E w \in Workers : WorkerDistribute(w)
    \/ \E w \in Workers, d \in DialogIds : WorkerProcess(w, d)
    \/ \E w \in Workers : WorkerEndCycle(w)

SpecReaper == InitReaper /\ [][NextReaper]_vars

\* C16: while a worker thread runs, only that thread reads and writes its
\* dialog table: no step changes the table of a worker while another thread
\* (the reaper inside get_stale_subscriptions) is reading it.
C16_TableOnlyWorkerThread ==
    [][\A w \in Workers : reaper_scan.w = w => dialogs'[w] = dialogs[w]]_vars

\* ---------------------------------------------------------------------------
\* persistence write order
\* ---------------------------------------------------------------------------

\* one dispatcher with its SIP stack and an empty backend; the SIP callbacks,
\* the worker threads and the store's sync thread run, the reaper does not
InitStore == Constructed({TRUE}, {MaxQueueCapacity}, {<<>>}, MaxInputs) /\ FeedConstructed

NextStore ==
    \/ Start
    \/ \E sip \in SipInputs : NuaCallback(sip)
    \/ FlushPending
    \/ \E w \in Workers : WorkerWake(w)
    \/ \E w \in Workers : WorkerDistribute(w)
    \/ \E w \in Workers, d \in DialogIds : WorkerProcess(w, d)
    \/ \E w \in Workers : WorkerEndCycle(w)

SpecStore == InitStore /\ [][NextStore]_vars

\* the queued operations of the store that concern dialog d
PendingFor(st, d) == SelectSeq(st.pending_ops, LAMBDA op : op.dialog_id = d)

\* the backend holds for dialog d what the last write issued for d asked for
BackendReflects(st, d) ==
    \/ st.issued[d].type = "none"
    \/ st.issued[d].type = "kDelete" /\ d \notin DOMAIN st.backend
    \/ /\ st.issued[d].type = "kUpsert"
       /\ d \in DOMAIN st.backend
       /\ st.backend[d] = st.issued[d].doc

\* C17: for every dialog the backend applies the writes (immediate saves,
\* batched upserts, queued deletes) in the order in which they were issued:
\* once no operation for the dialog is waiting in the batch, the backend
\* holds what the newest write issued for that dialog asked for, never an
\* older version.
C17_BackendHoldsNewest ==
    \A d \in DialogIds : PendingFor(store, d) = <<>> => BackendReflects(store, d)

\* ---------------------------------------------------------------------------
\* a failing backend
\* ---------------------------------------------------------------------------

NextBackend ==
    \/ Start
    \/ NuaCallback(Subscribe("D1", UserA, HostT, "dialog", 3600, ""))
    \/ NuaCallback(Subscribe("D1", UserA, HostT, "dialog", 0, ""))
    \/ \E c \in {"invalid", "error", "stalled"} : BackendFault(c)
    \/ BackendRecover
    \/ FlushPending
    \/ \E w \in Workers : WorkerWake(w)
    \/ \E w \in Workers : WorkerDistribute(w)
    \/ \E w \in Workers, d \in DialogIds : WorkerProcess(w, d)
    \/ \E w \in Workers : WorkerEndCycle(w)

SpecBackend == InitStore /\ [][NextBackend]_vars

\* the backend rejects writes with a persistence error
WritesFail(st) == st.condition \in {"invalid", "error"}

\* the store st with a backend that accepts every write
Healthy(st) == [st EXCEPT !.condition = "ok"]

\* the step just taken left worker w and dialog d as the outcome ok of
\* process_event does, the backend and its condition apart
ProcessedAs(w, d, ok) ==
    /\ dialogs'[w][d].record = ok.rec
    /\ dialogs'[w][d].nua_handle = ok.nua_handle
    /\ index' = ok.idx
    /\ sent' = ok.sent
    /\ notify_version_'[w] = ok.nver
    /\ store'.pending_ops = ok.st.pending_ops
    /\ store'.issued = ok.st.issued

\* the step just taken admitted or rejected dialog d on worker w as the
\* outcome ok of handle_new_subscription does
AdmittedAs(w, d, ok) ==
    /\ IF ok.ctx = NoCtx THEN dialogs'[w][d] = NoCtx
       ELSE /\ dialogs'[w][d] # NoCtx
            /\ dialogs'[w][d].record = ok.ctx.record
            /\ dialogs'[w][d].nua_handle = ok.ctx.nua_handle
    /\ registry' = ok.reg
    /\ sent' = ok.sent
    /\ store'.pending_ops = ok.st.pending_ops
    /\ store'.issued = ok.st.issued

\* the step just taken is handle_new_subscription of worker w for dialog d
AdmissionStep(w, d) ==
    /\ last'.op = "distribute" /\ last'.w = w /\ last'.d = d
    /\ dialogs[w][d] = NoCtx
    /\ last'.ev.source # "kPresenceFeed"

\* C18: when the store's writes fail with a persistence error, the record,
\* the lifecycle transition, the index, the registry and the responses and
\* NOTIFYs of the event are those produced when the writes succeed; in the
\* store only the error counter changes (the backend keeps what it held).
C18_FailedWritePreservesSip ==
    [][\A w \in Workers, d \in DialogIds :
          /\ (ProcessStep(w, d) /\ WritesFail(store))
             => /\ ProcessedAs(w, d,
                       process_event([rec |-> dialogs[w][d].record,
                                      nua_handle |-> dialogs[w][d].nua_handle,
                                      sent |-> <<>>, idx |-> index,
                                      st |-> Healthy(store),
                                      nver |-> notify_version_[w]],
                                     d, last'.ev))
                /\ store' = [store EXCEPT !.errors = store'.errors,
                                          !.pending_ops = store'.pending_ops,
                                          !.issued = store'.issued]
                /\ store'.errors >= store.errors
          /\ (AdmissionStep(w, d) /\ WritesFail(store))
             => /\ AdmittedAs(w, d,
                       handle_new_subscription(w, dialogs[w], registry,
                                               Healthy(store), d, last'.ev))
                /\ store' = [store EXCEPT !.errors = store'.errors,
                                          !.issued = store'.issued]]_vars

\* a SUBSCRIBE has just been processed while the backend throws on every
\* write: the save failed (the counter rose, the backend has no document),
\* the dialog is Active and 200 OK and the initial NOTIFY went out
C18_Witness ==
    /\ last.op = "process"
    /\ IsIncomingSubscribe(last.ev)
    /\ store.condition = "error"
    /\ store.errors > 0
    /\ last.d \notin DOMAIN store.backend
    /\ dialogs[last.w][last.d].record.lifecycle = "kActive"
    /\ Len(sent) = 2

\* process_dialog_queues of worker w has a dialog left to visit: the
\* enabling condition of WorkerProcess(w, d) for some d
ProcessPending(w) == phase[w] \in {"proc", "final"} /\ todo[w] # {}

\* SUBSCRIBEs arrive for one dialog while the backend may stop answering
NextStall ==
    \/ Start
    \/ NuaCallback(Subscribe("D1", UserA, HostT, "dialog", 3600, ""))
    \/ BackendFault("stalled")
    \/ \E w \in Workers : WorkerWake(w)
    \/ \E w \in Workers : WorkerDistribute(w)
    \/ \E w \in Workers, d \in DialogIds : WorkerProcess(w, d)
    \/ \E w \in Workers : WorkerEndCycle(w)

\* every worker thread is scheduled again and again, and wait_for returns
\* after its timeout at the latest: each step of run is weakly fair. For
\* WorkerProcess, whose every step takes one dialog out of todo, weak
\* fairness is the same as not waiting forever with a dialog left to visit.
SpecStall ==
    /\ InitStore /\ [][NextStall]_vars
    /\ \A w \in Workers :
          /\ WF_vars(WorkerWake(w))
          /\ WF_vars(WorkerDistribute(w))
          /\ WF_vars(WorkerEndCycle(w))
          /\ []<>~ProcessPending(w)

\* C19: a worker never blocks on the persistence backend: whatever the
\* backend does, every event waiting in the incoming queue of a worker is
\* eventually taken out of it to be processed.
C19_WorkerNeverBlocks ==
    \A w \in Workers : (incoming_queue[w] # <<>>) ~> (incoming_queue[w] = <<>>)

(***************************************************************************)
(* The results of dispatch: SIP messages with and without a usable dialog  *)
(* id arrive before, while and after DialogDispatcher::stop runs.          *)
(***************************************************************************)
Twice(s) == s \o s

\* the string of n characters c
RECURSIVE Repeat(_, _)
Repeat(c, n) ==
    IF n = 0 THEN ""
    ELSE IF n % 2 = 0 THEN Twice(Repeat(c, n \div 2))
    ELSE c \o Repeat(c, n - 1)

\* a dialog id one character longer than is_valid accepts
LongDialogId == Repeat("x", kMaxDialogIdLen + 1)

InitDispatch == Constructed({TRUE}, {MaxQueueCapacity}, {<<>>}, MaxInputs + 1) /\ FeedConstructed

NextDispatch ==
    \/ Start
    \/ NuaCallback(Subscribe("D1", UserA, HostT, "dialog", 3600, ""))
    \/ NuaCallback(Subscribe("", UserA, HostT, "dialog", 3600, ""))
    \/ NuaCallback(Subscribe(LongDialogId, UserA, HostT, "dialog", 3600, ""))
    \/ \E w \in Workers : WorkerWake(w)
    \/ \E w \in Workers : WorkerDistribute(w)
    \/ \E w \in Workers, d \in DialogIds : WorkerProcess(w, d)
    \/ \E w \in Workers : WorkerEndCycle(w)
    \/ \E w \in Workers : WorkerExit(w)
    \/ \E w \in Workers : StopRequest(w)
    \/ \E w \in Workers : StopJoin(w)

SpecDispatch == InitDispatch /\ [][NextDispatch]_vars

\* the step just taken is a dispatch call
DispatchStep == last'.op = "enqueue"

\* the dispatch call just made returned result and changed no worker queue,
\* dialog record, registry or index state
DispatchRejected(result) ==
    /\ last'.result = result
    /\ incoming_queue' = incoming_queue
    /\ dialogs' = dialogs
    /\ registry' = registry
    /\ index' = index

\* the dispatch call just made put ev at the back of the queue of worker w
\* and returned Ok
DispatchEnqueued(w, ev) ==
    /\ last'.result = "kOk"
    /\ incoming_queue' = [incoming_queue EXCEPT ![w] = Append(@, ev)]

\* the dialog id is empty or longer than 1024 characters
Malformed(dialog_id) == dialog_id = "" \/ Len(dialog_id) > kMaxDialogIdLen

\* C20 as stated: dispatch returns ShuttingDown when the dispatcher is not
\* started, InvalidArgument for an empty or over-long dialog id and
\* CapacityExceeded when the queue of the target worker is full, each
\* without changing any queue, dialog, registry or index state; otherwise
\* the event is enqueued on worker hash(dialog_id) mod W and Ok is returned.
C20_DispatchResults ==
    [][DispatchStep =>
          IF ~started THEN DispatchRejected("kShuttingDown")
          ELSE IF Malformed(last'.ev.dialog_id) THEN DispatchRejected("kInvalidArgument")
          ELSE IF Len(incoming_queue[StdHash[last'.ev.dialog_id] % Cardinality(Workers)])
                     >= max_incoming_queue_per_worker
          THEN DispatchRejected("kCapacityExceeded")
          ELSE DispatchEnqueued(StdHash[last'.ev.dialog_id] % Cardinality(Workers),
                                last'.ev)]_vars

\* C20: as above, except that once the target worker has been asked to stop
\* (DialogDispatcher::stop is running) dispatch returns ShuttingDown for a
\* well-formed event, whether the queue is full or not, and changes nothing.
C20_DispatchResultsUnlessStopping ==
    [][DispatchStep =>
          IF ~started THEN DispatchRejected("kShuttingDown")
          ELSE IF Malformed(last'.ev.dialog_id) THEN DispatchRejected("kInvalidArgument")
          ELSE IF stop_requested[StdHash[last'.ev.dialog_id] % Cardinality(Workers)]
          THEN DispatchRejected("kShuttingDown")
          ELSE IF Len(incoming_queue[StdHash[last'.ev.dialog_id] % Cardinality(Workers)])
                     >= max_incoming_queue_per_worker
          THEN DispatchRejected("kCapacityExceeded")
          ELSE DispatchEnqueued(StdHash[last'.ev.dialog_id] % Cardinality(Workers),
                                last'.ev)]_vars

\* a message whose dialog id is too long has just been refused with
\* InvalidArgument while an accepted event waits in a worker queue
C20_Witness ==
    /\ last.op = "enqueue"
    /\ last.result = "kInvalidArgument"
    /\ Len(last.ev.dialog_id) > kMaxDialogIdLen
    /\ started
    /\ \E w \in Workers : incoming_queue[w] # <<>>

\* ---------------------------------------------------------------------------
\* creation of dialog records
\* ---------------------------------------------------------------------------

\* dialog d has a record in no table, no registry entry and no store document
Unknown(d) ==
    /\ \A w \in Workers : dialogs[w][d] = NoCtx
    /\ d \notin DOMAIN registry.subscriptions
    /\ d \notin DOMAIN store.backend

\* dialog d has a record, a registry entry or a store document after the step
KnownAfter(d) ==
    \/ \E w \in Workers : dialogs'[w][d] # NoCtx
    \/ d \in DOMAIN registry'.subscriptions
    \/ d \in DOMAIN store'.backend

\* C21: a dialog record, registry entry or store document comes into being
\* for an unknown dialog id only when the worker distributes an incoming
\* SUBSCRIBE; a NOTIFY, PUBLISH or response event of the SIP stack, or a
\* presence trigger, for an unknown dialog id creates none of them.
C21_OnlySubscribeCreates ==
    [][\A d \in DialogIds :
          (Unknown(d) /\ KnownAfter(d))
          => /\ last'.op = "distribute" /\ last'.d = d
             /\ IsIncomingSubscribe(last'.ev)]_vars

\* the step just taken removed the record of dialog d from the table of
\* worker w while the thread of w keeps running, and the iteration did not
\* force-terminate d before its cleanup
RemovedWhileRunning(w, d) ==
    /\ dialogs[w][d] # NoCtx
    /\ dialogs'[w][d] = NoCtx
    /\ phase'[w] \notin {"done", "joined"}
    /\ ~InSeq(d, pending_terminates[w])

\* C22: while the worker runs, a record leaves the worker's table only if its
\* lifecycle is Terminated and its per-dialog event queue is empty; a Pending
\* or Active record is never removed by cleanup.
C22_CleanupOnlyTerminated ==
    [][\A w \in Workers, d \in DialogIds :
          RemovedWhileRunning(w, d)
          => /\ dialogs[w][d].record.lifecycle = "kTerminated"
             /\ dialogs[w][d].event_queue = <<>>]_vars

\* the place of a lifecycle in the order Pending, Active, Terminating,
\* Terminated
LifecycleRank(lifecycle) ==
    CASE lifecycle = "kPending" -> 0 [] lifecycle = "kActive" -> 1
      [] lifecycle = "kTerminating" -> 2 [] lifecycle = "kTerminated" -> 3

\* C23: between events the lifecycle of a record never moves backwards in
\* the order Pending, Active, Terminating, Terminated; once Terminated, no
\* event, response or presence trigger makes it Pending or Active again.
C23_LifecycleMonotonic ==
    [][\A w \in Workers, d \in DialogIds :
          (dialogs[w][d] # NoCtx /\ dialogs'[w][d] # NoCtx)
          => LifecycleRank(dialogs'[w][d].record.lifecycle)
                >= LifecycleRank(dialogs[w][d].record.lifecycle)]_vars

\* a record that was Terminated has just processed a further SUBSCRIBE with
\* Expires > 0 and is still Terminated
C23_Witness ==
    /\ last.op = "process"
    /\ IsIncomingSubscribe(last.ev)
    /\ last.ev.expires > 0
    /\ last.ev.subscription_state # "terminated"
    /\ Len(processed[last.d]) >= 2
    /\ dialogs[last.w][last.d] # NoCtx
    /\ dialogs[last.w][last.d].record.lifecycle = "kTerminated"

(***************************************************************************)
(* The registry on its own: register_subscription and                      *)
(* unregister_subscription called with arbitrary dialog ids and metadata.  *)
(***************************************************************************)
\* a call of SubscriptionRegistry::register_subscription
RegisterCall(dialog_id, info) ==
    /\ inputs < input_budget
    /\ inputs' = inputs + 1
    /\ info.dialog_id = dialog_id
    /\ registry' = register_subscription(registry, dialog_id, info)
    /\ sent' = <<>>
    /\ last' = NoLast
    /\ UNCHANGED <<started, stack_mgr, max_incoming_queue_per_worker, input_budget, failover, parser,
                   reaper_scan, phase, stop_requested, incoming_queue, local_batch,
                   pending_terminates, dialogs, todo, process_cycle, notify_version_,
                   events_dropped, index, store, event_queue_, router_dropped,
                   id_counter_, handle_refs, accepted, processed, trigger_run,
                   versions>>

\* a call of SubscriptionRegistry::unregister_subscription
UnregisterCall(dialog_id) ==
    /\ inputs < input_budget
    /\ inputs' = inputs + 1
    /\ registry' = unregister_subscription(registry, dialog_id)
    /\ sent' = <<>>
    /\ last' = NoLast
    /\ UNCHANGED <<started, stack_mgr, max_incoming_queue_per_worker, input_budget, failover, parser,
                   reaper_scan, phase, stop_requested, incoming_queue, local_batch,
                   pending_terminates, dialogs, todo, process_cycle, notify_version_,
                   events_dropped, index, store, event_queue_, router_dropped,
                   id_counter_, handle_refs, accepted, processed, trigger_run,
                   versions>>

\* the SubscriptionInfo values the calls are made with
SubscriptionInfos ==
    [dialog_id : DialogIds, tenant_id : {HostT, HostU}, type : {"kBLF", "kMWI"},
     lifecycle : {"kPending", "kActive"}, worker_index : Workers]

InitRegistry == Constructed({TRUE}, {MaxQueueCapacity}, {<<>>}, MaxInputs + 1) /\ FeedConstructed

NextRegistry ==
    \/ \E info \in SubscriptionInfos : RegisterCall(info.dialog_id, info)
    \/ \E d \in DialogIds : UnregisterCall(d)

SpecRegistry == InitRegistry /\ [][NextRegistry]_vars

\* the registered dialogs whose tenant_id is t
RegisteredOf(reg, t) ==
    {d \in DOMAIN reg.subscriptions : reg.subscriptions[d].tenant_id = t}

\* C24: after any sequence of register_subscription and
\* unregister_subscription calls, re-registrations with different metadata
\* included, count_by_tenant(t) is the number of registered dialogs whose
\* tenant_id is t, for every tenant t.
C24_CountByTenantExact ==
    \A t \in Tenants : count_by_tenant(registry, t) = Cardinality(RegisteredOf(registry, t))

\* what the last step recorded of the manager's calls: the indexes
\* get_next_server returned while every server was healthy and out of
\* cooldown (picks, each with the cursor it started from and whether
\* report_success followed), and per server what the reports since amount to
PicksOf(l) == IF "picks" \in DOMAIN l THEN l.picks ELSE <<>>

\* per server: report_failure calls since the last report_success (streak),
\* the cooldown_until the last report_failure set, 0 once report_success or
\* mark_healthy followed (until), and whether reset_all followed (reset)
TrackOf(l, fm) ==
    IF "track" \in DOMAIN l THEN l.track
    ELSE [i \in DOMAIN fm.servers_ |-> [streak |-> 0, until |-> 0, reset |-> FALSE]]

\* the last n elements of seq
LastN(seq, n) == IF Len(seq) <= n THEN seq ELSE SubSeq(seq, Len(seq) - n + 1, Len(seq))

AllUp(fm) == Available(fm) = DOMAIN fm.servers_

PicksAfter(op, ep, fm, fm2, idx, picks) ==
    IF op = "get_next_server" THEN
        IF AllUp(fm) /\ idx >= 0
        THEN LastN(Append(picks, [cursor |-> fm.round_robin_index_, idx |-> idx,
                                  acked |-> FALSE]),
                   Cardinality(DOMAIN fm.servers_))
        ELSE <<>>
    ELSE IF ~AllUp(fm2) THEN <<>>
    ELSE IF op = "report_success" /\ picks # <<>>
            /\ find_server(fm, ep) = picks[Len(picks)].idx
         THEN [picks EXCEPT ![Len(picks)].acked = TRUE]
    ELSE picks

TrackAfter(op, ep, fm, fm2, track) ==
    LET i == find_server(fm, ep)
    IN CASE op = "report_failure" /\ i >= 0 ->
               [track EXCEPT ![i] =
                   [streak |-> @.streak + 1,
                    until |-> fm2.servers_[i].cooldown_until,
                    reset |-> FALSE]]
         [] op = "report_success" /\ i >= 0 ->
               [track EXCEPT ![i] = [streak |-> 0, until |-> 0, reset |-> FALSE]]
         [] op = "mark_healthy" /\ i >= 0 ->
               [track EXCEPT ![i] = [@ EXCEPT !.until = 0, !.reset = FALSE]]
         [] op = "reset_all" ->
               [j \in DOMAIN track |-> [track[j] EXCEPT !.reset = TRUE]]
         [] OTHER -> track

\* what a call on the manager leaves besides the manager itself: op with
\* argument ep returned the server idx (get_next_server only)
Recorded(op, ep, idx) ==
    /\ inputs < input_budget
    /\ inputs' = inputs + 1
    /\ last' = [op |-> op, ep |-> ep, idx |-> idx, before |-> failover,
                endpoint |-> IF idx >= 0 THEN failover.servers_[idx].endpoint ELSE NoEndpoint,
                picks |-> PicksAfter(op, ep, failover, failover', idx, PicksOf(last)),
                track |-> TrackAfter(op, ep, failover, failover', TrackOf(last, failover))]
    /\ sent' = <<>>
    /\ UNCHANGED <<started, stack_mgr, max_incoming_queue_per_worker, input_budget,
                   parser, reaper_scan, phase, stop_requested, incoming_queue, local_batch,
                   pending_terminates, dialogs, todo, process_cycle, notify_version_,
                   events_dropped, index, registry, store, event_queue_, router_dropped,
                   id_counter_, handle_refs, accepted, processed, trigger_run,
                   versions>>

GetNextServer ==
    \E sel \in Selections(failover) :
        /\ failover' = get_next_server(failover, sel).fm
        /\ Recorded("get_next_server", NoEndpoint, get_next_server(failover, sel).idx)

ReportSuccess(ep) ==
    /\ failover' = report_success(failover, ep)
    /\ Recorded("report_success", ep, -1)

ReportFailure(ep) ==
    /\ failover' = report_failure(failover, ep)
    /\ Recorded("report_failure", ep, -1)

MarkUnhealthy(ep) ==
    /\ failover' = IF find_server(failover, ep) < 0 THEN failover
                   ELSE [failover EXCEPT !.servers_[find_server(failover, ep)].is_healthy = FALSE]
    /\ Recorded("mark_unhealthy", ep, -1)

MarkHealthy(ep) ==
    /\ failover' = IF find_server(failover, ep) < 0 THEN failover
                   ELSE [failover EXCEPT !.servers_[find_server(failover, ep)] =
                            [@ EXCEPT !.is_healthy = TRUE, !.cooldown_until = 0]]
    /\ Recorded("mark_healthy", ep, -1)

ResetAll ==
    /\ failover' = [failover EXCEPT !.servers_ =
                        [i \in DOMAIN failover.servers_ |->
                            [failover.servers_[i] EXCEPT !.is_healthy = TRUE,
                                                         !.consecutive_failures = 0,
                                                         !.cooldown_until = 0]]]
    /\ Recorded("reset_all", NoEndpoint, -1)

\* the clock advances
MaxNow == 3

ClockTick ==
    /\ failover.now < MaxNow
    /\ failover' = [failover EXCEPT !.now = @ + 1]
    /\ UNCHANGED <<started, stack_mgr, max_incoming_queue_per_worker, input_budget,
                   parser, reaper_scan, phase, stop_requested, incoming_queue, local_batch,
                   pending_terminates, dialogs, todo, process_cycle, notify_version_,
                   events_dropped, index, registry, store, event_queue_, router_dropped,
                   id_counter_, handle_refs, inputs, sent, last, accepted, processed,
                   trigger_run, versions>>

\* the server lists of the configurations: the first n servers of the test
\* configuration, with the priorities parse_servers assigns (configuration
\* order) or the opposite order
MaxServers == 2

ServerName(i) == CASE i = 1 -> "server1.com" [] i = 2 -> "server2.com" [] i = 3 -> "server3.com"
                   [] OTHER -> "server4.com"

ServerLists ==
    {[i \in 1..n |-> [host |-> ServerName(i), port |-> 9000,
                      priority |-> IF ascending THEN i - 1 ELSE n - i]] :
        n \in 0..MaxServers, ascending \in BOOLEAN}

\* the endpoints the calls are made with: those of the test configuration
\* and one that no configuration holds
Endpoints ==
    {[host |-> ServerName(i), port |-> 9000, priority |-> 0] : i \in 1..(MaxServers + 1)}

MaxCooldown == 2

InitFailover ==
    /\ Constructed({TRUE}, {MaxQueueCapacity}, {<<>>}, MaxInputs + 2)
    /\ \E servers \in ServerLists, cooldown \in 1..MaxCooldown,
          strategy \in {"kRoundRobin", "kPriority", "kRandom"} :
            failover = NewManager(servers, strategy, cooldown)
    /\ parser = NewParser

NextFailover ==
    \/ GetNextServer
    \/ \E ep \in Endpoints : ReportSuccess(ep)
    \/ \E ep \in Endpoints : ReportFailure(ep)
    \/ \E ep \in Endpoints : MarkUnhealthy(ep)
    \/ \E ep \in Endpoints : MarkHealthy(ep)
    \/ ResetAll
    \/ ClockTick

SpecFailover == InitFailover /\ [][NextFailover]_vars

\* the manager used through get_next_server, report_success and
\* report_failure only
NextReports ==
    \/ GetNextServer
    \/ \E ep \in Endpoints : ReportSuccess(ep)
    \/ \E ep \in Endpoints : ReportFailure(ep)
    \/ ClockTick

SpecReports == InitFailover /\ [][NextReports]_vars

\* get_next_server was the last call, on a manager with a server
Selected == last.op = "get_next_server" /\ DOMAIN last.before.servers_ # {}

C26_RoundRobinCycle ==
    (/\ failover.presence_failover_strategy = "kRoundRobin"
     /\ PicksOf(last) # <<>>
     /\ Len(PicksOf(last)) = Cardinality(DOMAIN failover.servers_))
    => \A i \in 1..Len(PicksOf(last)) :
           PicksOf(last)[i].idx
              = (PicksOf(last)[1].cursor + i - 1) % Cardinality(DOMAIN failover.servers_)

\* two servers, two selections, report_success after each
C26_Witness ==
    /\ failover.presence_failover_strategy = "kRoundRobin"
    /\ Cardinality(DOMAIN failover.servers_) >= 2
    /\ Len(PicksOf(last)) = Cardinality(DOMAIN failover.servers_)
    /\ \A i \in 1..Len(PicksOf(last)) : PicksOf(last)[i].acked
    /\ last.op = "report_success"

\* server s of the manager before the last call is held back: a
\* report_failure started a cooldown that has not expired, neither
\* report_success nor mark_healthy followed, and another server is not in
\* cooldown
HeldBack(s) ==
    /\ last.track[s].until > last.before.now
    /\ \E o \in NotInCooldown(last.before) : o # s

RoundRobinOrPriority ==
    last.before.presence_failover_strategy \in {"kRoundRobin", "kPriority"}

\* C27 as stated: after report_failure(s), until the cooldown expires or
\* report_success(s) or mark_healthy(s) is called, get_next_server under
\* RoundRobin or Priority does not return s while another server is out of
\* cooldown.
C27_FailedServerSkipped ==
    (Selected /\ RoundRobinOrPriority)
    => \A s \in DOMAIN last.before.servers_ : HeldBack(s) => last.idx # s

\* C27 amended: after report_failure(s), until the cooldown expires or
\* report_success(s), mark_healthy(s) or reset_all() is called,
\* get_next_server under RoundRobin or Priority does not return s while
\* another server is out of cooldown.
C27_FailedServerSkippedUnlessReset ==
    (Selected /\ RoundRobinOrPriority)
    => \A s \in DOMAIN last.before.servers_ :
           (HeldBack(s) /\ ~last.track[s].reset) => last.idx # s

\* the first server is held back and the second one is returned
C27_Witness ==
    /\ Selected /\ RoundRobinOrPriority
    /\ 0 \in DOMAIN last.before.servers_
    /\ HeldBack(0) /\ ~last.track[0].reset
    /\ last.before.round_robin_index_ = 0
    /\ last.before.servers_[0].endpoint.priority = 0
    /\ last.idx = 1

\* C28: with report_success and report_failure only, a server is unhealthy
\* exactly when at least 3 report_failure calls followed its last
\* report_success; report_success leaves the server healthy with
\* consecutive_failures 0 and no cooldown; healthy_count() is the number of
\* servers with fewer than 3 consecutive failures.
C28_UnhealthyAtThreeFailures ==
    /\ \A i \in DOMAIN failover.servers_ :
          /\ failover.servers_[i].consecutive_failures = TrackOf(last, failover)[i].streak
          /\ failover.servers_[i].is_healthy <=> TrackOf(last, failover)[i].streak < 3
    /\ healthy_count(failover)
          = Cardinality({i \in DOMAIN failover.servers_ :
                            failover.servers_[i].consecutive_failures < 3})
    /\ (last.op = "report_success" /\ find_server(failover, last.ep) >= 0)
          => /\ failover.servers_[find_server(failover, last.ep)].is_healthy
             /\ failover.servers_[find_server(failover, last.ep)].consecutive_failures = 0
             /\ failover.servers_[find_server(failover, last.ep)].cooldown_until = 0

\* report_success on a server that three failures had made unhealthy
C28_Witness ==
    /\ last.op = "report_success"
    /\ find_server(failover, last.ep) >= 0
    /\ ~last.before.servers_[find_server(failover, last.ep)].is_healthy
    /\ last.before.servers_[find_server(failover, last.ep)].consecutive_failures >= 3
    /\ healthy_count(failover) = healthy_count(last.before) + 1

(***************************************************************************)
(* The parser fed a stream of frames in chunks.                            *)
(***************************************************************************)
\* <tag>val</tag>
Element(tag, val) == OpenTag(tag) \o val \o CloseTag(tag)

\* the frames of the streams: two valid events (the second with a padded,
\* capitalised state), an event without CallId, and a heartbeat
Frames ==
    { OpenTag(CallStateEventTag) \o Element(CallIdTag, <<"1">>)
          \o Element(CallerUriTag, <<"a">>) \o Element(StateTag, <<"h", "e", "l", "d">>)
          \o CloseTag(CallStateEventTag),
      OpenTag(CallStateEventTag) \o Element(CallIdTag, <<"2">>)
          \o Element(CalleeUriTag, <<"b">>) \o Element(StateTag, <<" ", "I", "d", "l", "e">>)
          \o CloseTag(CallStateEventTag),
      OpenTag(CallStateEventTag) \o Element(CallerUriTag, <<"a">>)
          \o Element(StateTag, <<"h", "e", "l", "d">>) \o CloseTag(CallStateEventTag),
      OpenTag(HeartbeatTag) \o Element(TimestampTag, <<"9">>) \o CloseTag(HeartbeatTag) }

MaxFrames == 2

\* the concatenations of 1 to MaxFrames frames
RECURSIVE Concatenations(_)
Concatenations(n) ==
    IF n = 0 THEN {<<>>}
    ELSE {stream \o frame : stream \in Concatenations(n - 1), frame \in Frames}
            \cup Concatenations(n - 1)

Streams == Concatenations(MaxFrames) \ {<<>>}

\* the lengths a chunk can have: up to the longest stream
ChunkLengths ==
    1..(MaxFrames * (CHOOSE n \in {Len(frame) : frame \in Frames} :
                        \A frame \in Frames : Len(frame) <= n))

\* the bytes of the stream fed so far
FedOf(l) == IF l.op = "feed" THEN l.fed ELSE 0

\* the TCP client reads the next len bytes of the stream and feeds them;
\* last keeps the stream, the bytes fed, whether a feed left part of a
\* frame in the buffer, and the events the feeds returned, concatenated
Feed(stream, len) ==
    /\ last.op = "feed" => stream = last.stream
    /\ len <= Len(stream) - FedOf(last)
    /\ \E result \in {feed(parser, SubSeq(stream, FedOf(last) + 1, FedOf(last) + len))} :
          /\ parser' = result.parser
          /\ last' = [op |-> "feed", stream |-> stream, fed |-> FedOf(last) + len,
                      partial |-> \/ last.op = "feed" /\ last.partial
                                  \/ result.parser.buffer_ # <<>>,
                      events |-> IF last.op = "feed" THEN last.events \o result.events
                                 ELSE result.events,
                      received_heartbeat |-> result.received_heartbeat]
    /\ UNCHANGED <<started, stack_mgr, max_incoming_queue_per_worker, input_budget,
                   failover, reaper_scan, phase, stop_requested, incoming_queue,
                   local_batch, pending_terminates, dialogs, todo, process_cycle,
                   notify_version_, events_dropped, index, registry, store, event_queue_,
                   router_dropped, id_counter_, handle_refs, inputs, sent, accepted,
                   processed, trigger_run, versions>>

InitFeed == Constructed({TRUE}, {MaxQueueCapacity}, {<<>>}, MaxInputs) /\ FeedConstructed

NextFeed == \E stream \in Streams, len \in ChunkLengths : Feed(stream, len)

SpecFeed == InitFeed /\ [][NextFeed]_vars

\* C29: when a stream of well-formed frames has been fed whole, in whatever
\* chunks, the events the feeds returned are, in order and field by field,
\* those a new parser returns for the stream fed in one chunk.
C29_ChunkingInvariant ==
    (last.op = "feed" /\ last.fed = Len(last.stream))
    => last.events = feed(NewParser, last.stream).events

\* two valid events, fed with a chunk boundary inside a frame
C29_Witness ==
    /\ last.op = "feed" /\ last.fed = Len(last.stream)
    /\ last.partial
    /\ Len(last.events) = 2
    /\ last.events[1].state = "kHeld" /\ last.events[2].state = "kTerminated"

(***************************************************************************)
(* normalize_uri applied to arbitrary strings.                             *)
(***************************************************************************)
\* the strings normalize_uri is called with: brackets (none, balanced,
\* nested, unbalanced), a scheme or none, a user part or none, the default
\* port, another port or none, a parameter section or none
UriInputs ==
    {front \o scheme \o user \o HostT \o port \o params \o back :
        front \in {<<>>, <<"<">>, <<"<", "<">>},
        scheme \in {<<>>, SipPrefix, <<"S", "I", "P", ":">>, SipsPrefix},
        user \in {<<>>, UserA \o <<"@">>},
        port \in {<<>>, <<":">> \o Port5060, <<":", "5", "0", "6", "1">>},
        params \in {<<>>, <<";", "t">>},
        back \in {<<>>, <<">">>, <<">", ">">>}}

\* normalize_uri called on uri, and again on what it returned
NormalizeCall(uri) ==
    /\ last.op = "none"
    /\ last' = [op |-> "normalize_uri", uri |-> uri, once |-> normalize_uri(uri),
                twice |-> normalize_uri(normalize_uri(uri))]
    /\ UNCHANGED <<started, stack_mgr, max_incoming_queue_per_worker, input_budget,
                   failover, parser, reaper_scan, phase, stop_requested, incoming_queue,
                   local_batch, pending_terminates, dialogs, todo, process_cycle,
                   notify_version_, events_dropped, index, registry, store, event_queue_,
                   router_dropped, id_counter_, handle_refs, inputs, sent, accepted,
                   processed, trigger_run, versions>>

InitNormalize == Constructed({TRUE}, {MaxQueueCapacity}, {<<>>}, MaxInputs) /\ FeedConstructed

NextNormalize == \E uri \in UriInputs : NormalizeCall(uri)

SpecNormalize == InitNormalize /\ [][NextNormalize]_vars

\* C30: normalize_uri is idempotent: normalizing a normalized URI returns
\* it unchanged, for every input string.
C30_NormalizeIdempotent ==
    last.op = "normalize_uri" => last.twice = last.once

(***************************************************************************)
(* The watcher index on its own: add, remove and remove_dialog called with *)
(* arbitrary URIs and dialog ids.                                          *)
(***************************************************************************)
\* BlfSubscriptionIndex::remove(monitored_uri, dialog_id)
IndexRemove(idx, monitored_uri, dialog_id) ==
    [u2w |-> EraseWatcher(idx.u2w, normalize_uri(monitored_uri), dialog_id),
     d2u |-> Restrict(idx.d2u, DOMAIN idx.d2u \ {dialog_id})]

\* the dialogs remove_dialog was called for and add was not called for since
RemovedOf(l) == IF "removed" \in DOMAIN l THEN l.removed ELSE {}

\* an index call is counted and recorded
IndexCalled(op, removed) ==
    /\ inputs < input_budget
    /\ inputs' = inputs + 1
    /\ last' = [op |-> op, removed |-> removed]
    /\ UNCHANGED <<started, stack_mgr, max_incoming_queue_per_worker, input_budget,
                   failover, parser, reaper_scan, phase, stop_requested, incoming_queue,
                   local_batch, pending_terminates, dialogs, todo, process_cycle,
                   notify_version_, events_dropped, registry, store, event_queue_,
                   router_dropped, id_counter_, handle_refs, sent, accepted,
                   processed, trigger_run, versions>>

\* a call of BlfSubscriptionIndex::add
IndexAddCall(monitored_uri, dialog_id, tenant_id) ==
    /\ index' = IndexAdd(index, monitored_uri, dialog_id, tenant_id)
    /\ IndexCalled("add", RemovedOf(last) \ {dialog_id})

\* a call of BlfSubscriptionIndex::remove
IndexRemoveCall(monitored_uri, dialog_id) ==
    /\ index' = IndexRemove(index, monitored_uri, dialog_id)
    /\ IndexCalled("remove", RemovedOf(last))

\* a call of BlfSubscriptionIndex::remove_dialog
IndexRemoveDialogCall(dialog_id) ==
    /\ index' = IndexRemoveDialog(index, dialog_id)
    /\ IndexCalled("remove_dialog", RemovedOf(last) \cup {dialog_id})

\* the URIs the calls are made with: two extensions, one of them also in
\* the form of a name-addr with a parameter, and the empty string
IndexUris ==
    {UriOf(UserA, HostT), UriOf(UserB, HostT),
     <<"<">> \o UriOf(UserA, HostT) \o <<";", "t", ">">>, <<>>}

InitIndex == Constructed({TRUE}, {MaxQueueCapacity}, {<<>>}, MaxInputs + 2) /\ FeedConstructed

NextIndex ==
    \/ \E uri \in IndexUris, d \in DialogIds, t \in Tenants : IndexAddCall(uri, d, t)
    \/ \E uri \in IndexUris, d \in DialogIds : IndexRemoveCall(uri, d)
    \/ \E d \in DialogIds : IndexRemoveDialogCall(d)

SpecIndex == InitIndex /\ [][NextIndex]_vars

\* how many times lookup returns dialog d, over all normalized URIs
Occurrences(idx, d) ==
    Cardinality(UNION {{<<uri, i>> : i \in {j \in 1..Len(idx.u2w[uri]) :
                                                idx.u2w[uri][j].dialog_id = d}} :
                       uri \in DOMAIN idx.u2w})

\* C31: after any sequence of add, remove(uri, dialog) and remove_dialog
\* calls with arbitrary arguments, lookup returns each dialog id for at most
\* one normalized URI and at most once, and after remove_dialog(d) no lookup
\* returns d until d is added again.
C31_OneEntryPerDialog ==
    /\ \A d \in DialogIds : Occurrences(index, d) <= 1
    /\ \A d \in RemovedOf(last) : Occurrences(index, d) = 0

(***************************************************************************)
(* Admission of new subscriptions by two workers.  The tenant check of     *)
(* handle_new_subscription and its register_subscription call lock the     *)
(* registry separately, so the thread can be between the two.  std::hash   *)
(* is implementation-defined and dialog ids whose hashes differ modulo the *)
(* number of workers reach different workers; the two ids of this model    *)
(* share a worker, so here each worker is handed its SUBSCRIBE by          *)
(* DialogWorker::enqueue directly.                                         *)
(***************************************************************************)
\* DialogWorker::handle_new_subscription once the tenant check has passed:
\* the capacity check, the event type check and the creation of the context
AfterTenantCheck(w, tbl, reg, st, did, ev) ==
    LET reject(status) ==
            [ctx |-> NoCtx, reg |-> reg, st |-> st,
             sent |-> IF ev.nua_handle # NullHandle /\ stack_mgr
                      THEN <<respond_to_subscribe(ev.nua_handle, status, 0)>>
                      ELSE <<>>,
             unref |-> IF ev.nua_handle # NullHandle /\ stack_mgr
                       THEN ev.nua_handle ELSE NullHandle]
    IN  IF TableSize(tbl) >= max_dialogs_per_worker THEN reject(503)
        ELSE IF ev.sub_type = "kUnknown" THEN reject(489)
        ELSE
        LET rec == [DefaultRecord EXCEPT
                       !.dialog_id = did, !.tenant_id = ev.tenant_id,
                       !.type = ev.sub_type, !.lifecycle = "kPending",
                       !.expires_set = (ev.expires > 0),
                       !.blf_monitored_uri =
                           IF ev.sub_type = "kBLF" THEN ev.to_uri ELSE <<>>]
            info == [dialog_id |-> did, tenant_id |-> ev.tenant_id,
                     type |-> ev.sub_type, lifecycle |-> "kPending",
                     worker_index |-> w]
            st1 == IF mongo_enable_persistence
                   THEN Issued(save_immediately(st, rec), did, "kUpsert", StoreDoc(rec))
                   ELSE st
        IN  [ctx |-> IF st1.blocked THEN NoCtx
                     ELSE [record |-> rec, event_queue |-> <<>>,
                           nua_handle |-> ev.nua_handle],
             reg |-> register_subscription(reg, did, info),
             st |-> st1,
             sent |-> <<>>, unref |-> NullHandle]

\* SipCallbackHandler::nua_callback for a SUBSCRIBE whose dialog id hashes
\* to worker w: the event is created and handed to DialogWorker::enqueue
EnqueueAt(w, sip) ==
    /\ started
    /\ inputs < input_budget
    /\ inputs' = inputs + 1
    /\ \E r \in {enqueue(w, incoming_queue[w],
                         create_from_sofia(id_counter_ + 1, sip.nua_event, sip.status,
                                           sip.dialog_id, sip))} :
          /\ incoming_queue' = [incoming_queue EXCEPT ![w] = r.queue]
          /\ events_dropped' = [events_dropped EXCEPT ![w] = @ + r.dropped]
          /\ handle_refs' = IF r.result = "kOk"
                            THEN [handle_refs EXCEPT ![sip.dialog_id] = @ + 1]
                            ELSE handle_refs
          /\ accepted' = IF r.result = "kOk"
                         THEN [accepted EXCEPT ![sip.dialog_id] = Append(@, id_counter_ + 1)]
                         ELSE accepted
          /\ sent' = IF r.result # "kOk"
                     THEN <<respond_to_subscribe(sip.dialog_id, 503, 0)>> ELSE <<>>
          /\ last' = [NoLast EXCEPT !.op = "enqueue", !.w = w, !.d = sip.dialog_id,
                                    !.result = r.result]
    /\ id_counter_' = id_counter_ + 1
    /\ UNCHANGED <<started, stack_mgr, max_incoming_queue_per_worker, input_budget,
                   failover, parser, reaper_scan, phase, stop_requested, local_batch,
                   pending_terminates, dialogs, todo, process_cycle, notify_version_,
                   index, registry, store, event_queue_, router_dropped, processed,
                   trigger_run, versions>>

\* the front event of the batch is of a dialog the worker does not know and
\* does not come from the presence feed
FrontIsNew(w) ==
    /\ phase[w] = "dist"
    /\ local_batch[w] # <<>>
    /\ dialogs[w][Head(local_batch[w]).dialog_id] = NoCtx
    /\ Head(local_batch[w]).source # "kPresenceFeed"

\* the tenant of the front event is under its limit
UnderLimit(w) ==
    count_by_tenant(registry, Head(local_batch[w]).tenant_id) < max_subscriptions_per_tenant

\* handle_new_subscription up to the tenant check, which passes: the registry
\* lock is released and the thread goes on to the other checks
AdmitCheck(w) ==
    /\ FrontIsNew(w)
    /\ UnderLimit(w)
    /\ phase' = [phase EXCEPT ![w] = "admit"]
    /\ sent' = <<>>
    /\ last' = NoLast
    /\ UNCHANGED <<started, stack_mgr, max_incoming_queue_per_worker, input_budget,
                   failover, parser, reaper_scan, stop_requested, incoming_queue,
                   local_batch, pending_terminates, dialogs, todo, process_cycle,
                   notify_version_, events_dropped, index, registry, store,
                   event_queue_, router_dropped, id_counter_, handle_refs, inputs,
                   accepted, processed, trigger_run, versions>>

\* the rest of handle_new_subscription and of the iteration of the
\* distribution loop
AdmitRegister(w) ==
    /\ phase[w] = "admit"
    /\ \E ev \in {Head(local_batch[w])} :
       \E hn \in {AfterTenantCheck(w, dialogs[w], registry, store, ev.dialog_id, ev)} :
       \E rest \in {IF hn.st.blocked THEN local_batch[w] ELSE Tail(local_batch[w])} :
       \E tbl1 \in {IF hn.ctx = NoCtx THEN dialogs[w]
                    ELSE [dialogs[w] EXCEPT ![ev.dialog_id] =
                             [hn.ctx EXCEPT !.event_queue = Append(@, ev)]]} :
          /\ local_batch' = [local_batch EXCEPT ![w] = rest]
          /\ dialogs' = [dialogs EXCEPT ![w] = tbl1]
          /\ registry' = hn.reg
          /\ store' = [hn.st EXCEPT !.blocked = FALSE]
          /\ sent' = hn.sent
          /\ handle_refs' = IF hn.unref = NullHandle THEN handle_refs
                            ELSE [handle_refs EXCEPT ![hn.unref] = @ - 1]
          /\ events_dropped' = [events_dropped EXCEPT ![w] =
                                   IF hn.ctx = NoCtx /\ ~hn.st.blocked
                                   THEN @ + 1 ELSE @]
          /\ last' = [op |-> "distribute", w |-> w, d |-> ev.dialog_id, ev |-> ev,
                      result |-> IF hn.st.blocked THEN "blocked"
                                 ELSE IF hn.ctx = NoCtx THEN "dropped" ELSE "created"]
          /\ IF hn.st.blocked
             THEN /\ phase' = [phase EXCEPT ![w] = "blocked"]
                  /\ UNCHANGED todo
             ELSE IF rest = <<>>
             THEN /\ phase' = [phase EXCEPT ![w] = "proc"]
                  /\ todo' = [todo EXCEPT ![w] = DialogsWithEvents(tbl1)]
             ELSE /\ phase' = [phase EXCEPT ![w] = "dist"]
                  /\ UNCHANGED todo
    /\ UNCHANGED <<started, stack_mgr, max_incoming_queue_per_worker, input_budget,
                   failover, parser, reaper_scan, stop_requested, incoming_queue,
                   pending_terminates, process_cycle, notify_version_, index,
                   event_queue_, router_dropped, id_counter_, inputs,
                   accepted, processed, trigger_run, versions>>

\* the iterations of the distribution loop in which the tenant check is not
\* passed: the dialog is known, or the tenant is at its limit
DistributeDecided(w) ==
    /\ phase[w] = "dist"
    /\ ~(FrontIsNew(w) /\ UnderLimit(w))
    /\ WorkerDistribute(w)

\* the SUBSCRIBEs of one tenant and the workers their dialog ids lead to
AdmissionInputs ==
    { <<0, Subscribe("D1", UserA, HostT, "dialog", 3600, "")>>,
      <<1, Subscribe("D2", UserA, HostT, "dialog", 3600, "")>>,
      <<1, Subscribe("D2", UserB, HostU, "dialog", 3600, "")>> }

InitAdmission == Constructed({TRUE}, {MaxQueueCapacity}, {<<>>}, MaxInputs + 1) /\ FeedConstructed

NextAdmission ==
    \/ Start
    \/ \E in \in AdmissionInputs : EnqueueAt(in[1], in[2])
    \/ \E w \in Workers : WorkerWake(w)
    \/ \E w \in Workers : AdmitCheck(w)
    \/ \E w \in Workers : AdmitRegister(w)
    \/ \E w \in Workers : DistributeDecided(w)
    \/ \E w \in Workers, d \in DialogIds : WorkerProcess(w, d)
    \/ \E w \in Workers : WorkerEndCycle(w)

SpecAdmission == InitAdmission /\ [][NextAdmission]_vars

\* C32: the number of registered subscriptions of a tenant never exceeds
\* max_subscriptions_per_tenant, even when several workers admit new
\* SUBSCRIBEs of the same tenant concurrently.
C32_TenantLimitHolds ==
    \A t \in Tenants : Cardinality(RegisteredOf(registry, t)) <= max_subscriptions_per_tenant

(***************************************************************************)
(* Force-terminate requests: DialogWorker::force_terminate called for any  *)
(* worker and dialog id while SUBSCRIBEs of a BLF and of an MWI dialog     *)
(* arrive; the worker is built with or without a SIP stack manager.        *)
(***************************************************************************)
\* a call of DialogWorker::force_terminate(d) on worker w
ForceTerminateCall(w, d) ==
    /\ started
    /\ ~stop_requested[w]
    /\ inputs < input_budget
    /\ inputs' = inputs + 1
    /\ pending_terminates' = [pending_terminates EXCEPT ![w] = Append(@, d)]
    /\ sent' = <<>>
    /\ last' = NoLast
    /\ UNCHANGED <<started, stack_mgr, max_incoming_queue_per_worker, input_budget,
                   failover, parser, reaper_scan, phase, stop_requested, incoming_queue,
                   local_batch, dialogs, todo, process_cycle, notify_version_,
                   events_dropped, index, registry, store, event_queue_, router_dropped,
                   id_counter_, handle_refs, accepted, processed, trigger_run, versions>>

InitTerminate == Constructed(BOOLEAN, {MaxQueueCapacity}, {<<>>}, MaxInputs + 1) /\ FeedConstructed

NextTerminate ==
    \/ Start
    \/ \E header \in {"dialog", "message-summary"} :
          NuaCallback(Subscribe("D1", UserA, HostT, header, 3600, ""))
    \/ \E w \in Workers, d \in DialogIds : ForceTerminateCall(w, d)
    \/ \E w \in Workers : WorkerWake(w)
    \/ \E w \in Workers : WorkerDistribute(w)
    \/ \E w \in Workers, d \in DialogIds : WorkerProcess(w, d)
    \/ \E w \in Workers : WorkerEndCycle(w)

SpecTerminate == InitTerminate /\ [][NextTerminate]_vars

\* worker w wakes and runs the force-terminate loop over its requests
TerminatesApplied(w) ==
    /\ phase[w] = "wait"
    /\ pending_terminates[w] # <<>>
    /\ pending_terminates'[w] = <<>>

\* the final NOTIFYs the step hands to the stack on handle nh
FinalNotifies(nh) ==
    SelectSeq(sent', LAMBDA m : m.msg = "notify" /\ m.handle = nh
                                /\ m.sub_state = "terminated")

\* the store deletes of dialog d the step queues
DeletesQueued(d) ==
    {i \in (Len(store.pending_ops) + 1)..Len(store'.pending_ops) :
        store'.pending_ops[i].type = "kDelete" /\ store'.pending_ops[i].dialog_id = d}

\* what applying a request for the existing dialog d of worker w does
TerminatedBy(w, d) ==
    /\ dialogs'[w][d] # NoCtx =>
          /\ dialogs'[w][d].record.lifecycle = "kTerminated"
          /\ dialogs'[w][d].event_queue = <<>>
    /\ Occurrences(index', d) = 0
    /\ d \notin DOMAIN registry'.subscriptions
    /\ DeletesQueued(d) # {}
    /\ dialogs[w][d].nua_handle # NullHandle =>
          Len(FinalNotifies(dialogs[w][d].nua_handle)) = 1

\* a request for a dialog worker w does not hold changes nothing for d
NoEffect(w, d) ==
    /\ dialogs'[w][d] = NoCtx
    /\ DeletesQueued(d) = {}
    /\ FinalNotifies(d) = <<>>

\* C33: a force_terminate(d) request is applied when the worker next wakes,
\* before any event drained in that cycle is distributed: an existing d
\* becomes Terminated, leaves the watcher index and the registry, a store
\* delete is queued, its queued events are discarded and, if it holds a
\* valid handle, exactly one final NOTIFY with subscription_state
\* terminated is sent; a request naming an unknown dialog has no effect.
C33_ForceTerminateApplied ==
    [][\A w \in Workers, d \in DialogIds :
          (TerminatesApplied(w) /\ InSeq(d, pending_terminates[w])) =>
              /\ local_batch'[w] = incoming_queue[w]
              /\ IF dialogs[w][d] # NoCtx THEN TerminatedBy(w, d) ELSE NoEffect(w, d)]_vars

(***************************************************************************)
(* The presence router on its own: the process starts on a store holding   *)
(* Active BLF subscriptions, which recovery indexes, and call-state events *)
(* naming their URIs as callee, as caller or as both are routed.           *)
(***************************************************************************)
\* the stored collections: D1 watching a@T, with or without D2 watching b@T
SeedRouting ==
    { "D1" :> StoreDoc(StoredActiveRecord),
      ("D1" :> StoreDoc(StoredActiveRecord)) @@
      ("D2" :> StoreDoc([StoredActiveRecord EXCEPT
                            !.dialog_id = "D2",
                            !.blf_monitored_uri = UriOf(UserB, HostT)])) }

\* the call-state events: a call to a, a call from a to b, a call of a to
\* its own extension, a call between extensions nobody watches
RoutingEvents ==
    { [presence_call_id |-> "c1", caller_uri |-> caller, callee_uri |-> callee,
       state |-> "kRinging", is_valid |-> TRUE]
      : <<caller, callee>> \in
            { <<<<>>, UriOf(UserA, HostT)>>,
              <<UriOf(UserA, HostT), UriOf(UserB, HostT)>>,
              <<UriOf(UserA, HostT), UserA \o <<"@">> \o HostT>>,
              <<UriOf(UserB, HostU), UriOf(UserA, HostU)>> } }

InitRouting == Constructed({TRUE}, {MaxQueueCapacity}, SeedRouting, MaxInputs + 1) /\ FeedConstructed

NextRouting ==
    \/ Start
    \/ \E cse \in RoutingEvents : OnCallStateEvent(cse)
    \/ RouterProcess
    \/ \E w \in Workers : WorkerWake(w)
    \/ \E w \in Workers : WorkerDistribute(w)
    \/ \E w \in Workers, d \in DialogIds : WorkerProcess(w, d)
    \/ \E w \in Workers : WorkerEndCycle(w)

SpecRouting == InitRouting /\ [][NextRouting]_vars

\* the router thread takes an event from its queue and routes it
RouterStep == event_queue_ # <<>> /\ event_queue_' = Tail(event_queue_)

\* the dialogs indexed under the callee URI or the caller URI of cse
WatchingDialogs(cse) ==
    {d \in DialogIds :
        \/ InSeq(d, [i \in 1..Len(IndexLookup(index, cse.callee_uri)) |->
                        IndexLookup(index, cse.callee_uri)[i].dialog_id])
        \/ InSeq(d, [i \in 1..Len(IndexLookup(index, cse.caller_uri)) |->
                        IndexLookup(index, cse.caller_uri)[i].dialog_id])}

\* the presence triggers for dialog d the step appends to the queue of w
TriggersAppended(w, d) ==
    SelectSeq(SubSeq(incoming_queue'[w], Len(incoming_queue[w]) + 1,
                     Len(incoming_queue'[w])),
              LAMBDA ev : ev.source = "kPresenceFeed" /\ ev.dialog_id = d)

\* the queue of worker w takes a trigger for every dialog of ds it serves
HasRoom(w, ds) ==
    /\ started
    /\ ~stop_requested[w]
    /\ Len(incoming_queue[w]) + Cardinality({x \in ds : worker_index_for(x) = w})
           <= max_incoming_queue_per_worker

\* C34: for each valid call-state event taken from the router queue, every
\* dialog indexed under the callee URI or the caller URI is sent exactly one
\* presence trigger, one per dialog even if it matches both sides, on the
\* queue of worker hash(dialog_id) mod W, provided that queue has room; if
\* no watcher is found nothing is dispatched and watchers_not_found is
\* raised by one.
C34_OneTriggerPerWatcher ==
    [][(RouterStep /\ Head(event_queue_).is_valid) =>
          IF WatchingDialogs(Head(event_queue_)) = {}
          THEN /\ incoming_queue' = incoming_queue
               /\ last'.result = "watchers_not_found"
          ELSE /\ last'.result # "watchers_not_found"
               /\ \A d \in WatchingDialogs(Head(event_queue_)), w \in Workers :
                     Len(TriggersAppended(w, d)) =
                        IF w = worker_index_for(d)
                           /\ HasRoom(w, WatchingDialogs(Head(event_queue_)))
                        THEN 1
                        ELSE IF w = worker_index_for(d)
                        THEN Min(1, Len(TriggersAppended(w, d)))
                        ELSE 0]_vars

\* C35: once a dialog has been terminated and the store's pending queue has
\* drained, the backend holds no document for its dialog id, whatever
\* further events for the dialog are processed before the record is cleaned
\* up.
C35_TerminatedLeavesBackend ==
    \A w \in Workers, d \in DialogIds :
        (/\ dialogs[w][d] # NoCtx
         /\ dialogs[w][d].record.lifecycle = "kTerminated"
         /\ store.pending_ops = <<>>)
        => d \notin DOMAIN store.backend

(***************************************************************************)
(* The process as main wires it: DialogDispatcher is built without a       *)
(* stack manager, so every worker's stack_mgr_ is null. SUBSCRIBEs arrive  *)
(* for unknown, live, terminated and recovered dialogs.                    *)
(***************************************************************************)
\* main: DialogDispatcher dispatcher(config, slow_logger, sub_store)
InitWired == Constructed({FALSE}, {MaxQueueCapacity}, SeedBackends, MaxInputs) /\ FeedConstructed

WiredSubscribes ==
    { Subscribe("D1", UserA, HostT, "dialog", 3600, ""),
      Subscribe("D1", UserA, HostT, "dialog", 0, ""),
      Subscribe("D1", UserA, HostT, "presence", 3600, ""),
      Subscribe("D2", UserA, HostT, "dialog", 3600, "") }

NextWired ==
    \/ Start
    \/ \E sip \in WiredSubscribes : NuaCallback(sip)
    \/ \E w \in Workers : WorkerWake(w)
    \/ \E w \in Workers : WorkerDistribute(w)
    \/ \E w \in Workers, d \in DialogIds : WorkerProcess(w, d)
    \/ \E w \in Workers : WorkerEndCycle(w)

\* the worker threads are scheduled as in SpecStall
SpecWired ==
    /\ InitWired /\ [][NextWired]_vars
    /\ \A w \in Workers :
          /\ WF_vars(WorkerWake(w))
          /\ WF_vars(WorkerDistribute(w))
          /\ WF_vars(WorkerEndCycle(w))
          /\ []<>~ProcessPending(w)

\* dispatch has just accepted a SUBSCRIBE of dialog d
SubscribeAccepted(d) ==
    /\ last.op = "enqueue"
    /\ last.result = "kOk"
    /\ last.d = d
    /\ last.ev.category = "kSubscribe"

\* a final response to a SUBSCRIBE of dialog d is handed to the stack
SubscribeAnswered(d) ==
    \E i \in 1..Len(sent) :
        /\ sent[i].msg = "response"
        /\ sent[i].handle = d
        /\ sent[i].status \in {200, 403, 489, 503}

\* C36: in the process as wired by main, every incoming SUBSCRIBE that
\* dispatch accepts is eventually answered with a final response (200, 403,
\* 489 or 503), whatever the state of its dialog.
C36_EverySubscribeAnswered ==
    \A d \in DialogIds : SubscribeAccepted(d) ~> SubscribeAnswered(d)

(***************************************************************************)
(* The store's queue on its own: producers call queue_upsert and           *)
(* queue_delete, the sync thread runs sync_thread_func, and one thread     *)
(* calls stop(). flush_pending swaps the queue out under queue_mu_ and     *)
(* applies the batch outside the lock, one operation at a time.            *)
(***************************************************************************)
\* the most operations queued in one behaviour
MaxOps == 3

\* the record of dialog d with n new messages, as a producer hands it over
OpRecord(d, n) == [StoredActiveRecord EXCEPT !.dialog_id = d, !.mwi_new_messages = n]

\* the store with its two threads: running_, stop_requested_, the position
\* of sync_thread_func (sync_pc) and of stop() (stop_pc), and the local
\* batch of the flush_pending call of each
ThreadedStore ==
    NewStore(<<>>) @@
    [running_ |-> FALSE, stop_requested_ |-> FALSE, sync_pc |-> "none",
     stop_pc |-> "idle", batch |-> [t \in {"sync", "stop"} |-> <<>>]]

\* history: the operations in the order queued, the operations in the order
\* handed to the backend, and the number queued when stop() was called
NoStoreLog == [op |-> "store", queued |-> <<>>, applied |-> <<>>, at_stop |-> 0]

InitSync ==
    /\ started = FALSE
    /\ stack_mgr = TRUE
    /\ max_incoming_queue_per_worker = MaxQueueCapacity
    /\ phase = [w \in Workers |-> "idle"]
    /\ stop_requested = [w \in Workers |-> FALSE]
    /\ incoming_queue = [w \in Workers |-> <<>>]
    /\ local_batch = [w \in Workers |-> <<>>]
    /\ pending_terminates = [w \in Workers |-> <<>>]
    /\ dialogs = [w \in Workers |-> EmptyTable]
    /\ todo = [w \in Workers |-> {}]
    /\ process_cycle = [w \in Workers |-> 0]
    /\ notify_version_ = [w \in Workers |-> 0]
    /\ events_dropped = [w \in Workers |-> 0]
    /\ index = EmptyIndex
    /\ registry = EmptyRegistry
    /\ store = ThreadedStore
    /\ event_queue_ = <<>>
    /\ router_dropped = 0
    /\ id_counter_ = 0
    /\ handle_refs = [h \in DialogIds |-> 0]
    /\ inputs = 0
    /\ input_budget = MaxOps
    /\ reaper_scan = NoScan
    /\ sent = <<>>
    /\ last = NoStoreLog
    /\ accepted = [d \in DialogIds |-> <<>>]
    /\ processed = [d \in DialogIds |-> <<>>]
    /\ versions = [d \in DialogIds |-> <<>>]
    /\ trigger_run = [d \in DialogIds |-> NoRun]
    /\ FeedConstructed

\* everything but the store, its history and the count of inputs
BesideStore ==
    <<started, stack_mgr, max_incoming_queue_per_worker, input_budget, failover,
      parser, reaper_scan, phase, stop_requested, incoming_queue, local_batch,
      pending_terminates, dialogs, todo, process_cycle, notify_version_,
      events_dropped, index, registry, event_queue_, router_dropped, id_counter_,
      handle_refs, accepted, processed, trigger_run, versions, sent>>

\* SubscriptionStore::start with persistence enabled and mongo connected
StoreStart ==
    /\ mongo_enable_persistence
    /\ store.sync_pc = "none"
    /\ store' = [store EXCEPT !.stop_requested_ = FALSE, !.running_ = TRUE,
                              !.sync_pc = "loop"]
    /\ UNCHANGED <<BesideStore, last, inputs>>

\* a producer calls queue_upsert (type kUpsert) or queue_delete (kDelete) on
\* the started store
QueueOp(type, d, n) ==
    /\ mongo_enable_persistence
    /\ store.sync_pc # "none"
    /\ inputs < input_budget
    /\ inputs' = inputs + 1
    /\ store' = IF type = "kUpsert" THEN queue_upsert(store, OpRecord(d, n))
                ELSE queue_delete(store, d)
    /\ last' = [last EXCEPT !.queued =
                   Append(@, IF type = "kUpsert"
                             THEN queue_upsert(ThreadedStore, OpRecord(d, n)).pending_ops[1]
                             ELSE queue_delete(ThreadedStore, d).pending_ops[1])]
    /\ UNCHANGED BesideStore

\* sync_thread_func: the loop condition while (!stop_requested_)
SyncLoop ==
    /\ store.sync_pc = "loop"
    /\ store' = [store EXCEPT !.sync_pc = IF store.stop_requested_ THEN "exit"
                                          ELSE "wait"]
    /\ UNCHANGED <<BesideStore, last, inputs>>

\* sync_thread_func: wait_for returns, by its predicate or by its timeout
SyncWake ==
    /\ store.sync_pc = "wait"
    /\ store' = [store EXCEPT !.sync_pc = "check"]
    /\ UNCHANGED <<BesideStore, last, inputs>>

\* sync_thread_func: if (stop_requested_ && pending_ops_.empty()) break;
\* otherwise flush_pending is entered
SyncCheck ==
    /\ store.sync_pc = "check"
    /\ store' = [store EXCEPT !.sync_pc =
                    IF store.stop_requested_ /\ store.pending_ops = <<>>
                    THEN "exit" ELSE "swap"]
    /\ UNCHANGED <<BesideStore, last, inputs>>

\* variant of swap_batch in which stop() does not flush
swap_batch_unless_stopping(st, t) ==
    IF t = "stop" THEN st
    ELSE [st EXCEPT !.batch[t] = st.pending_ops, !.pending_ops = <<>>]

\* the store once flush_pending of thread t has run std::swap(batch,
\* pending_ops_)
swap_batch(st, t) == [st EXCEPT !.batch[t] = st.pending_ops, !.pending_ops = <<>>]

\* thread t is at the swap of flush_pending
AtSwap(t) ==
    \/ t = "sync" /\ store.sync_pc = "swap"
    \/ t = "stop" /\ store.stop_pc = "swap"

\* thread t is in the batch loop of flush_pending
AtApply(t) ==
    \/ t = "sync" /\ store.sync_pc = "apply"
    \/ t = "stop" /\ store.stop_pc = "apply"

\* flush_pending of thread t: the swap under queue_mu_
FlushSwap(t) ==
    /\ AtSwap(t)
    /\ store' = IF t = "sync" THEN [swap_batch(store, t) EXCEPT !.sync_pc = "apply"]
                ELSE [swap_batch(store, t) EXCEPT !.stop_pc = "apply"]
    /\ UNCHANGED <<BesideStore, last, inputs>>

\* flush_pending of thread t: one turn of while (!batch.empty())
FlushApply(t) ==
    /\ AtApply(t)
    /\ store.batch[t] # <<>>
    /\ store' = [ApplyOp(store, Head(store.batch[t])) EXCEPT !.batch[t] = Tail(@)]
    /\ last' = [last EXCEPT !.applied = Append(@, Head(store.batch[t]))]
    /\ UNCHANGED <<BesideStore, inputs>>

\* flush_pending of the sync thread returns, to the loop condition
SyncFlushed ==
    /\ store.sync_pc = "apply"
    /\ store.batch["sync"] = <<>>
    /\ store' = [store EXCEPT !.sync_pc = "loop"]
    /\ UNCHANGED <<BesideStore, last, inputs>>

\* SubscriptionStore::stop up to the join: running_ is set, stop_requested_
\* is raised under queue_mu_
StoreStopCall ==
    /\ store.stop_pc = "idle"
    /\ store.running_
    /\ store' = [store EXCEPT !.stop_requested_ = TRUE, !.stop_pc = "join"]
    /\ last' = [last EXCEPT !.at_stop = Len(last.queued)]
    /\ UNCHANGED <<BesideStore, inputs>>

\* SubscriptionStore::stop: sync_thread_.join() returns, flush_pending is
\* entered
StoreStopJoin ==
    /\ store.stop_pc = "join"
    /\ store.sync_pc = "exit"
    /\ store' = [store EXCEPT !.stop_pc = "swap"]
    /\ UNCHANGED <<BesideStore, last, inputs>>

\* SubscriptionStore::stop: flush_pending has returned, running_ is cleared
StoreStopReturn ==
    /\ store.stop_pc = "apply"
    /\ store.batch["stop"] = <<>>
    /\ store' = [store EXCEPT !.running_ = FALSE, !.stop_pc = "returned"]
    /\ UNCHANGED <<BesideStore, last, inputs>>

NextSync ==
    \/ StoreStart
    \/ \E type \in {"kUpsert", "kDelete"}, d \in DialogIds, n \in {0, 1} :
          QueueOp(type, d, n)
    \/ SyncLoop
    \/ SyncWake
    \/ SyncCheck
    \/ \E t \in {"sync", "stop"} : FlushSwap(t)
    \/ \E t \in {"sync", "stop"} : FlushApply(t)
    \/ SyncFlushed
    \/ StoreStopCall
    \/ StoreStopJoin
    \/ StoreStopReturn

SpecSync == InitSync /\ [][NextSync]_vars

\* s is the beginning of t
IsPrefix(s, t) == Len(s) <= Len(t) /\ s = SubSeq(t, 1, Len(s))

\* C37: for a started store, the operations accepted by queue_upsert and
\* queue_delete are applied to the backend in the order they were queued,
\* each exactly once, and when stop() has returned every operation queued
\* before stop() was called has been applied.
C37_QueuedOpsAppliedInOrder ==
    /\ IsPrefix(last.applied, last.queued)
    /\ store.backend = ApplyOps(NewStore(<<>>), last.applied).backend
    /\ store.stop_pc = "returned" => Len(last.applied) >= last.at_stop

\* stop() has returned after operations were queued before and during it,
\* the sync thread having flushed some and stop() the rest
C37_Witness ==
    /\ store.stop_pc = "returned"
    /\ last.at_stop >= 2
    /\ Len(last.applied) > last.at_stop
    /\ \E i \in 1..Len(last.applied) : last.applied[i].type = "kDelete"
    /\ store.backend # <<>>

(***************************************************************************)
(* Cleanup of terminated dialogs while the workers keep running: nobody    *)
(* calls stop, the backend answers, and dialogs are terminated by an       *)
(* unsubscribe, by a NOTIFY response 481 or by force_terminate.            *)
(***************************************************************************)
CleanupInputs ==
    { Subscribe("D1", UserA, HostT, "dialog", 3600, ""),
      Subscribe("D1", UserA, HostT, "dialog", 0, ""),
      Subscribe("D2", UserA, HostT, "dialog", 0, ""),
      NotifyResponse("D1", 481) }

NextCleanup ==
    \/ Start
    \/ \E sip \in CleanupInputs : NuaCallback(sip)
    \/ \E w \in Workers, d \in DialogIds : ForceTerminate(w, d)
    \/ \E w \in Workers : WorkerWake(w)
    \/ \E w \in Workers : WorkerDistribute(w)
    \/ \E w \in Workers, d \in DialogIds : WorkerProcess(w, d)
    \/ \E w \in Workers : WorkerEndCycle(w)

\* the worker threads are scheduled as in SpecStall; wait_for returns after
\* 100 ms at the latest, so WorkerWake is taken with an empty queue too
SpecCleanup ==
    /\ InitStore /\ [][NextCleanup]_vars
    /\ \A w \in Workers :
          /\ WF_vars(WorkerWake(w))
          /\ WF_vars(WorkerDistribute(w))
          /\ WF_vars(WorkerEndCycle(w))
          /\ []<>~ProcessPending(w)

\* dialog d is in the table of worker w, Terminated, with nothing queued
TerminatedIdle(w, d) ==
    /\ dialogs[w][d] # NoCtx
    /\ dialogs[w][d].record.lifecycle = "kTerminated"
    /\ dialogs[w][d].event_queue = <<>>

\* dialog d is neither in the table of worker w nor in the registry
RemovedAndUnregistered(w, d) ==
    /\ dialogs[w][d] = NoCtx
    /\ d \notin DOMAIN registry.subscriptions

\* C38: while the worker keeps running, every dialog that is Terminated and
\* has an empty per-dialog queue is eventually removed from the worker's
\* table and unregistered from the registry, even if no further event
\* arrives at that worker. The worker of a dialog is the one its id hashes
\* to: no other worker's table ever holds it.
C38_TerminatedEventuallyCleaned ==
    \A d \in DialogIds :
        TerminatedIdle(worker_index_for(d), d)
            ~> RemovedAndUnregistered(worker_index_for(d), d)

\* a dialog whose termination queued the delete of its document is gone from
\* the table and the registry, with no input left to come
C38_Witness ==
    \E w \in Workers, d \in DialogIds :
        /\ processed[d] # <<>>
        /\ store.issued[d].type = "kDelete"
        /\ RemovedAndUnregistered(w, d)
        /\ w = worker_index_for(d)
        /\ incoming_queue[w] = <<>>
        /\ inputs = input_budget

(***************************************************************************)
(* Message-summary NOTIFYs for an MWI subscription: the counters they      *)
(* carry change the record or repeat it, with and without an Expires       *)
(* header.                                                                 *)
(***************************************************************************)
\* the parsed body "Voice-Message: n/o"
Summary(n, o) ==
    [kind |-> "summary", messages_waiting |-> n > 0, new_messages |-> n,
     old_messages |-> o]

\* an incoming NOTIFY (nua_i_notify) with a message-summary body
SummaryNotify(did, has_expires, n, o) ==
    SipMessage("nua_i_notify", 0, did, UserA, HostT, "message-summary", has_expires,
               3600, "active", Summary(n, o))

MwiInputs ==
    { Subscribe("D1", UserA, HostT, "message-summary", 3600, "") } \cup
    { SummaryNotify("D1", has_expires, n, 0) : has_expires \in BOOLEAN, n \in {0, 1} }

NextMwi ==
    \/ Start
    \/ \E sip \in MwiInputs : NuaCallback(sip)
    \/ FlushPending
    \/ \E w \in Workers : WorkerWake(w)
    \/ \E w \in Workers : WorkerDistribute(w)
    \/ \E w \in Workers, d \in DialogIds : WorkerProcess(w, d)
    \/ \E w \in Workers : WorkerEndCycle(w)

SpecMwi == InitDispatch /\ [][NextMwi]_vars

\* worker w processes a message-summary NOTIFY for the MWI dialog d
SummaryNotifyProcessed(w, d) ==
    /\ ProcessStep(w, d)
    /\ dialogs[w][d].record.type = "kMWI"
    /\ last'.ev.category = "kNotify"
    /\ last'.ev.direction = "kIncoming"
    /\ last'.ev.body # NoBody
    /\ SummaryValid(last'.ev.body)

\* the step changes mwi_new_messages or mwi_old_messages of dialog d
CountersChanged(w, d) ==
    \/ dialogs'[w][d].record.mwi_new_messages # dialogs[w][d].record.mwi_new_messages
    \/ dialogs'[w][d].record.mwi_old_messages # dialogs[w][d].record.mwi_old_messages

\* C39: processing a message-summary NOTIFY marks the MWI record dirty, and
\* so queues a batched store write, only if mwi_new_messages or
\* mwi_old_messages changed; a NOTIFY repeating the current counters leaves
\* the record clean and queues no write.
C39_RepeatedSummaryQueuesNoWrite ==
    [][\A w \in Workers, d \in DialogIds :
          (SummaryNotifyProcessed(w, d) /\ ~CountersChanged(w, d))
          => /\ store'.pending_ops = store.pending_ops
             /\ dialogs'[w][d].record.dirty => dialogs[w][d].record.dirty]_vars

(***************************************************************************)
(* PresenceTcpClient's reader thread: it asks the failover manager for a   *)
(* server, connects, reads until the connection is lost, and waits         *)
(* current_backoff_ before the next attempt. In this specification the     *)
(* variable parser holds the client: its parser_ and, beside it, the       *)
(* members current_backoff_, the two configured intervals, the position    *)
(* of reader_thread_func and the endpoint it is connecting to.             *)
(***************************************************************************)
\* the largest configured interval, in seconds
MaxInterval == 5

\* the most loop iterations of reader_thread_func in one behaviour
MaxRounds == 4

\* the constructor: current_backoff_(config.presence_reconnect_interval)
NewClient(interval, max_interval) ==
    NewParser @@
    [current_backoff_ |-> interval, presence_reconnect_interval |-> interval,
     presence_reconnect_max_interval |-> max_interval, pc |-> "select",
     ep |-> NoEndpoint]

InitBackoff ==
    /\ Constructed({TRUE}, {MaxQueueCapacity}, {<<>>}, MaxRounds)
    /\ \E servers \in ServerLists :
          failover = NewManager(servers, "kRoundRobin", 1)
    /\ \E interval \in 0..2, max_interval \in 0..MaxInterval :
          /\ interval <= max_interval
          /\ parser = NewClient(interval, max_interval)

\* everything but the client, the failover manager, the history and the
\* count of rounds
BesideClient ==
    <<started, stack_mgr, max_incoming_queue_per_worker, input_budget,
      reaper_scan, phase, stop_requested, incoming_queue, local_batch,
      pending_terminates, dialogs, todo, process_cycle, notify_version_,
      events_dropped, index, registry, store, event_queue_, router_dropped,
      id_counter_, handle_refs, accepted, processed, trigger_run, versions, sent>>

\* reader_thread_func: get_next_server, and the branch on ep.host.empty()
ReaderSelect ==
    /\ parser.pc = "select"
    /\ inputs < input_budget
    /\ inputs' = inputs + 1
    /\ \E sel \in Selections(failover) :
          /\ failover' = get_next_server(failover, sel).fm
          /\ parser' = [parser EXCEPT
                !.ep = get_next_server(failover, sel).endpoint,
                !.pc = IF get_next_server(failover, sel).endpoint.host = ""
                       THEN "backoff" ELSE "connect"]
    /\ UNCHANGED <<BesideClient, last>>

\* connect_to_server returns r, and reader_thread_func reports it: on kOk
\* current_backoff_ is reset and parser_->reset() is called
ReaderConnect(r) ==
    /\ parser.pc = "connect"
    /\ IF r = "kOk"
       THEN /\ parser' = [parser EXCEPT
                    !.current_backoff_ = parser.presence_reconnect_interval,
                    !.buffer_ = <<>>, !.pc = "read"]
            /\ failover' = report_success(failover, parser.ep)
       ELSE /\ parser' = [parser EXCEPT !.pc = "backoff"]
            /\ failover' = report_failure(failover, parser.ep)
    /\ last' = [op |-> "connect", result |-> r,
                backoff_before |-> parser.current_backoff_]
    /\ UNCHANGED <<BesideClient, inputs>>

\* read_loop returns: the connection is lost
ReaderDisconnect ==
    /\ parser.pc = "read"
    /\ parser' = [parser EXCEPT !.pc = "backoff"]
    /\ failover' = report_failure(failover, parser.ep)
    /\ UNCHANGED <<BesideClient, last, inputs>>

\* variant of next_backoff without the cap
next_backoff_uncapped(backoff, max_interval) == backoff * 2

\* std::min(Seconds(current_backoff_.count() * 2), presence_reconnect_max_interval)
next_backoff(backoff, max_interval) == Min(backoff * 2, max_interval)

\* reconnect_with_backoff: the wait, then the new current_backoff_
ReaderBackoff ==
    /\ parser.pc = "backoff"
    /\ parser' = [parser EXCEPT
            !.current_backoff_ = next_backoff(@, parser.presence_reconnect_max_interval),
            !.pc = "select"]
    /\ last' = [op |-> "backoff", result |-> "",
                backoff_before |-> parser.current_backoff_]
    /\ UNCHANGED <<BesideClient, failover, inputs>>

NextBackoff ==
    \/ ReaderSelect
    \/ \E r \in {"kOk", "kError", "kTimeout"} : ReaderConnect(r)
    \/ ReaderDisconnect
    \/ ReaderBackoff
    \/ ClockTick

SpecBackoff == InitBackoff /\ [][NextBackoff]_vars

\* connect_to_server has just returned kOk
ConnectedStep == parser.pc = "connect" /\ parser'.pc = "read"

\* reconnect_with_backoff has just returned
WaitedStep == parser.pc = "backoff" /\ parser'.pc = "select"

\* C40: with presence_reconnect_interval <= presence_reconnect_max_interval,
\* the reconnect backoff equals presence_reconnect_interval immediately
\* after every successful connect, after each backoff wait it is twice what
\* it was, held at presence_reconnect_max_interval when the double is
\* larger, and it never exceeds presence_reconnect_max_interval.
C40_BackoffResetDoubledCapped ==
    /\ [](parser.current_backoff_ <= parser.presence_reconnect_max_interval)
    /\ [][/\ ConnectedStep
             => parser'.current_backoff_ = parser.presence_reconnect_interval
          /\ WaitedStep
             => parser'.current_backoff_ =
                   IF 2 * parser.current_backoff_
                         <= parser.presence_reconnect_max_interval
                   THEN 2 * parser.current_backoff_
                   ELSE parser.presence_reconnect_max_interval]_vars

\* a connect succeeds after the backoff had been doubled up to the maximum,
\* which is no power-of-two multiple of the interval, and resets it
C40_Witness ==
    /\ "backoff_before" \in DOMAIN last
    /\ last.op = "connect"
    /\ last.result = "kOk"
    /\ parser.presence_reconnect_interval = 1
    /\ parser.presence_reconnect_max_interval = 5
    /\ last.backoff_before = 5
    /\ parser.current_backoff_ = 1

=============================================================================
